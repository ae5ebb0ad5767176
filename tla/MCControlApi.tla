---------------------------- MODULE MCControlApi ----------------------------
(* Two keys with different least values, one of them started with a value  *)
(* PUT would refuse, against a patch that is accepted and one that is      *)
(* refused for one of its keys and names another the configuration lacks.  *)
EXTENDS ControlApi, TLC

MCDefault == "buy_interval" :> 0 @@ "listings_per_grade" :> 1

MCPatches ==
    { "buy_interval" :> 1 @@ "listings_per_grade" :> 2,
      "buy_interval" :> 2 @@ "listings_per_grade" :> 0 @@ "bogus" :> Malformed }

MCValues == -1 .. 2
=============================================================================

---------------------------- MODULE AtomicConfig ----------------------------
(***************************************************************************)
(* What the runtime configuration promises its callers: every PUT takes    *)
(* effect as a whole or not at all, at one moment, and every reader gets   *)
(* the values of one moment.  Nothing is said of locks, copies or keys     *)
(* checked one by one.                                                     *)
(***************************************************************************)
EXTENDS Integers

CONSTANTS
    Callers,   \* who reads and writes the configuration
    Default,   \* the configuration of a new process
    Patches,   \* what may be PUT: some keys, some values
    Accepted   \* for each key the values its check lets through

VARIABLES
    config,    \* the configuration
    request,   \* of each caller: <<>>, <<"get">> or <<"put", patch>>
    reply      \* what each caller was told last

vars == <<config, request, reply>>

Keys == DOMAIN Default

Requests == {<<"get">>} \cup {<<"put", p>> : p \in Patches}

Acceptable(p) == \A k \in DOMAIN p \cap Keys : p[k] \in Accepted[k]

Patched(p) == [k \in Keys |-> IF k \in DOMAIN p THEN p[k] ELSE config[k]]

Init ==
    /\ config = Default
    /\ request = [c \in Callers |-> <<>>]
    /\ reply = [c \in Callers |-> <<>>]

Ask(c) ==
    /\ request[c] = <<>>
    /\ \E r \in Requests : request' = [request EXCEPT ![c] = r]
    /\ reply' = [reply EXCEPT ![c] = <<>>]
    /\ UNCHANGED config

Answer(c, r) ==
    /\ reply' = [reply EXCEPT ![c] = r]
    /\ request' = [request EXCEPT ![c] = <<>>]

Get(c) ==
    /\ request[c] = <<"get">>
    /\ Answer(c, <<"config", config>>)
    /\ UNCHANGED config

Put(c) == \E p \in Patches :
    /\ request[c] = <<"put", p>>
    /\ \/ Acceptable(p) /\ config' = Patched(p) /\ Answer(c, <<"ok">>)
       \/ ~Acceptable(p) /\ UNCHANGED config /\ Answer(c, <<"rejected">>)

(* The answer has been read.                                               *)
Take(c) ==
    /\ reply' = [reply EXCEPT ![c] = <<>>]
    /\ UNCHANGED <<config, request>>

(* A new process knows nothing of what was PUT, or asked, before.          *)
Restart ==
    /\ config' = Default
    /\ request' = [c \in Callers |-> <<>>]
    /\ reply' = [c \in Callers |-> <<>>]

Next == Restart \/ \E c \in Callers : Ask(c) \/ Get(c) \/ Put(c) \/ Take(c)

Spec == Init /\ [][Next]_vars
=============================================================================

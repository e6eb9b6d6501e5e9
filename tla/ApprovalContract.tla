--------------------------- MODULE ApprovalContract ---------------------------
(***************************************************************************)
(* What tool approval promises, whatever turns, crashes and concurrent     *)
(* answers do: a request the user was asked about is dispatched only after *)
(* an allowing decision, the decision is made once, and the request gets   *)
(* one response that agrees with it.                                       *)
(***************************************************************************)
CONSTANTS Requests, Decisions, Allowing, None

VARIABLES
    gated,          \* requests the user was asked about
    decision,       \* the user's decision, or None
    dispatched,     \* requests whose tool has been started
    response        \* the response in the conversation, or None

vars == <<gated, decision, dispatched, response>>

Permitted(r) == r \notin gated \/ decision[r] \in Allowing

Init ==
    /\ gated = {} /\ dispatched = {}
    /\ decision = [r \in Requests |-> None]
    /\ response = [r \in Requests |-> None]

\* Only a request without a response is asked about.
Ask ==
    \E r \in Requests \ gated :
        /\ response[r] = None
        /\ gated' = gated \cup {r}
        /\ UNCHANGED <<decision, dispatched, response>>

Decide ==
    \E r \in gated, d \in Decisions :
        /\ decision[r] = None
        /\ decision' = [decision EXCEPT ![r] = d]
        /\ UNCHANGED <<gated, dispatched, response>>

Dispatch ==
    \E S \in SUBSET {r \in Requests : Permitted(r) /\ response[r] = None} :
        /\ dispatched' = dispatched \cup S
        /\ UNCHANGED <<gated, decision, response>>

\* The responses a request may be given in its present state.
Due(r) ==
    {"cancelled"}
    \cup (IF r \in dispatched /\ Permitted(r) THEN {"result"} ELSE {})
    \cup (IF r \in gated => decision[r] \in Decisions \ Allowing THEN {"declined"} ELSE {})

Respond ==
    /\ \A r \in Requests :
          \/ response'[r] = response[r]
          \/ response[r] = None /\ response'[r] \in Due(r)
    /\ UNCHANGED <<gated, decision, dispatched>>

Next == Ask \/ Decide \/ Dispatch \/ Respond

Spec == Init /\ [][Next]_vars
=============================================================================

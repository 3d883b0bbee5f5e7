-------------------------- MODULE DocumentLifecycle --------------------------
(***************************************************************************)
(* What the document handlers promise to a clerk, as if every request ran   *)
(* alone and at once: a draft can be edited away; a finalized document is    *)
(* made into one other at a time; an order is closed by the document that    *)
(* fulfils it and open again once that document is voided; what others were  *)
(* made from cannot be voided.  DocumentFlow, with its row locks and stale   *)
(* reads, implements it on the schedules of CalmSpec.                        *)
(***************************************************************************)
CONSTANTS
    Docs, NoDoc,
    Kinds,            \* kinds of documents
    Orders,           \* the kinds that close when fulfilled
    Becomes(_)        \* Becomes(k): the kinds a document of kind k is made into

VARIABLES kind, status, source

vars == <<kind, status, source>>

Standing == {"draft", "sent", "closed"}

MadeFrom(s) == {d \in Docs : source[d] = s /\ status[d] \in Standing}

Init ==
    /\ kind \in [Docs -> Kinds]
    /\ status = [d \in Docs |-> "absent"]
    /\ source = [d \in Docs |-> NoDoc]

\* A draft appears, by hand or made from a finalized document that has no other.
Draft(d, k, s) ==
    /\ status[d] = "absent"
    /\ s # NoDoc => status[s] = "sent" /\ MadeFrom(s) = {} /\ k \in Becomes(kind[s])
    /\ kind'   = [kind EXCEPT ![d] = k]
    /\ status' = [status EXCEPT ![d] = "draft"]
    /\ source' = [source EXCEPT ![d] = s]

\* A draft takes effect, and with that closes the order it fulfils.
Finalize(d) ==
    /\ status[d] = "draft"
    /\ status' = [x \in Docs |->
                    CASE x = d -> "sent"
                      [] x # d /\ x = source[d] /\ kind[x] \in Orders -> "closed"
                      [] OTHER -> status[x]]
    /\ UNCHANGED <<kind, source>>

\* A finalized document nothing stands on is undone; the order it fulfilled opens.
Void(d) ==
    /\ status[d] \in {"sent", "closed"}
    /\ MadeFrom(d) = {}
    /\ status' = [x \in Docs |->
                    CASE x = d -> "void"
                      [] x # d /\ x = source[d] /\ kind[x] \in Orders -> "sent"
                      [] OTHER -> status[x]]
    /\ UNCHANGED <<kind, source>>

\* A draft is thrown away.
Discard(d) ==
    /\ status[d] = "draft"
    /\ status' = [status EXCEPT ![d] = "deleted"]
    /\ UNCHANGED <<kind, source>>

Next ==
    \E d \in Docs :
        \/ \E k \in Kinds, s \in Docs \cup {NoDoc} : Draft(d, k, s)
        \/ Finalize(d) \/ Void(d) \/ Discard(d)

Spec == Init /\ [][Next]_vars

=============================================================================

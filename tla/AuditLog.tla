------------------------------ MODULE AuditLog ------------------------------
(***************************************************************************)
(* What the audit buffer promises to those who emit events: an event is    *)
(* refused at once or accepted, and the accepted events leave in the order *)
(* of their acceptance, in batches, each exported or reported as lost as a *)
(* whole, and none of them twice.                                          *)
(***************************************************************************)
EXTENDS Naturals, Sequences

CONSTANT Event

VARIABLES
    emitted,   \* events emitted so far
    pending,   \* accepted events that have not left, oldest first
    exported,  \* events the export accepted, in order
    lost       \* events of failed batches, in order

vars == <<emitted, pending, exported, lost>>

Init ==
    /\ emitted = {}
    /\ pending = <<>>
    /\ exported = <<>>
    /\ lost = <<>>

Accept(e) ==
    /\ e \notin emitted
    /\ emitted' = emitted \cup {e}
    /\ pending' = Append(pending, e)
    /\ UNCHANGED <<exported, lost>>

Refuse(e) ==
    /\ e \notin emitted
    /\ emitted' = emitted \cup {e}
    /\ UNCHANGED <<pending, exported, lost>>

Leave(n, ok) ==
    LET batch == SubSeq(pending, 1, n)
    IN  /\ pending' = SubSeq(pending, n + 1, Len(pending))
        /\ \/ ok /\ exported' = exported \o batch /\ UNCHANGED lost
           \/ ~ok /\ lost' = lost \o batch /\ UNCHANGED exported
        /\ UNCHANGED emitted

Next ==
    \/ \E e \in Event : Accept(e) \/ Refuse(e)
    \/ \E n \in 1..Len(pending), ok \in BOOLEAN : Leave(n, ok)

Spec == Init /\ [][Next]_vars
=============================================================================

------------------------------- MODULE Succession -------------------------------
(***************************************************************************)
(* What a contract promises about who administers it.  Without a council   *)
(* the chief names a successor; with one, a new chief or a new council is  *)
(* what an open motion names, once a quorum of the council of that day has *)
(* said aye to that very motion.                                           *)
(***************************************************************************)
EXTENDS Naturals, FiniteSets

CONSTANTS Person, Motion

VARIABLES
    chief,      \* who administers
    council,    \* who may say aye
    quorum,     \* how many of them it takes
    motions     \* what was moved, and who said aye

vars == <<chief, council, quorum, motions>>

\* A motion for a chief names one person, one for a council its members and quorum.
MotionOf(stage, what, people, n) ==
    [stage |-> stage, what |-> what, people |-> people, quorum |-> n, ayes |-> {}]

Unmoved == MotionOf("none", "nothing", {}, 0)
Spent   == MotionOf("spent", "nothing", {}, 0)

Seated(c, n) == c \subseteq Person /\ c # {} /\ n \in 1..Cardinality(c)

Sound(what, people, n) ==
    \/ what = "chief" /\ Cardinality(people) = 1 /\ n = 0
    \/ what = "council" /\ Seated(people, n)

IsOpen(m)     == motions[m].stage = "open"
Open(m, what) == IsOpen(m) /\ motions[m].what = what
Carried(m)    == motions[m].ayes \subseteq council /\ Cardinality(motions[m].ayes) >= quorum

-----------------------------------------------------------------------------
Init ==
    /\ chief \in Person
    /\ (council = {} /\ quorum = 0) \/ Seated(council, quorum)
    /\ motions = [m \in Motion |-> Unmoved]

\* The chief's own word is enough as long as nobody else has a say.
Name ==
    /\ council = {} /\ \A m \in Motion: ~Open(m, "chief")
    /\ chief' \in Person
    /\ UNCHANGED <<council, quorum, motions>>

Seat ==
    /\ council = {} /\ Seated(council', quorum')
    /\ UNCHANGED <<chief, motions>>

\* One motion of a kind at a time.
Move(m) ==
    /\ motions[m].stage = "none"
    /\ \E what \in {"chief", "council"}, people \in SUBSET Person, n \in 0..Cardinality(Person):
          /\ Sound(what, people, n) /\ \A o \in Motion: ~Open(o, what)
          /\ motions' = [motions EXCEPT ![m] = MotionOf("open", what, people, n)]
    /\ UNCHANGED <<chief, council, quorum>>

SayAye(m, p) ==
    /\ IsOpen(m) /\ p \in council
    /\ motions' = [motions EXCEPT ![m].ayes = @ \cup {p}]
    /\ UNCHANGED <<chief, council, quorum>>

Install(m) ==
    /\ Open(m, "chief") /\ council # {} /\ Carried(m)
    /\ chief' \in motions[m].people
    /\ motions' = [motions EXCEPT ![m] = Spent]
    /\ UNCHANGED <<council, quorum>>

\* What the members of a council that is replaced have said is worth nothing more.
Replace(m) ==
    /\ Open(m, "council") /\ council # {} /\ Carried(m)
    /\ council' = motions[m].people /\ quorum' = motions[m].quorum
    /\ motions' = [o \in Motion |-> IF o = m THEN Spent ELSE [motions[o] EXCEPT !.ayes = {}]]
    /\ UNCHANGED chief

Drop(m) ==
    /\ IsOpen(m)
    /\ motions' = [motions EXCEPT ![m] = Spent]
    /\ UNCHANGED <<chief, council, quorum>>

Next ==
    \/ Name \/ Seat
    \/ \E m \in Motion: Move(m) \/ Install(m) \/ Replace(m) \/ Drop(m)
    \/ \E m \in Motion, p \in Person: SayAye(m, p)

Spec == Init /\ [][Next]_vars
=============================================================================

--------------------------- MODULE SharedDocument ---------------------------
(***************************************************************************)
(* What the service promises about a document that several browsers edit:  *)
(* one value with a version and its author, who has been shown the version *)
(* that the value replaced.  Organization implements it for notes and      *)
(* dashboards.                                                             *)
(***************************************************************************)
EXTENDS Integers

CONSTANTS Client, Nobody, Text, Blank

\* known: the newest version a client has been shown, -1 before the first
VARIABLES value, version, author, known

register == <<value, version, author, known>>

Init ==
  /\ value = Blank
  /\ version = 0
  /\ author = Nobody
  /\ known = [c \in Client |-> -1]

\* A client is shown the current version, or late, an older one.
Show(c) ==
  /\ \E v \in 0..version : v > known[c] /\ known' = [known EXCEPT ![c] = v]
  /\ UNCHANGED <<value, version, author>>

\* A client that has been shown the newest version replaces it in its own name.
Write(c) ==
  /\ known[c] = version
  /\ \E t \in Text : value' = t
  /\ version' = version + 1
  /\ author' = c
  /\ UNCHANGED known

Next == \E c \in Client : Show(c) \/ Write(c)

Spec == Init /\ [][Next]_register

=============================================================================

----------------------------- MODULE MCSession -----------------------------
(* Instances of Session for TLC. *)
EXTENDS Session, TLC

CONSTANTS m1, m2, o1, w1, s1, s2, s3, s4

OneGuarded == {m1}
TwoGuarded == {m1, m2}
OneOptional == {o1}
OneWifi == {w1}
NoTask == {}

FourSessions == {s1, s2, s3, s4}

\* Session ids are only compared, and a new one may be any unknown one.
SessionSymmetry == Permutations(SessionIds)
=============================================================================

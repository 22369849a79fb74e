-------------------------- MODULE MCControlService --------------------------
(***************************************************************************)
(* Instances of ControlService for TLC.                                    *)
(***************************************************************************)
EXTENDS ControlService, TLC

CONSTANTS c1, c2, c3

\* An update of the limits alone.
LimitsOnly == {[mode |-> None, automation |-> None]}

Symmetry == Permutations(Clients)

\* docs/UI_ACTION_AUDIT.md, Header, Refresh: "Invalidates provider cache and
\* reloads live overview".  After a refresh was answered, nobody who asks later
\* is given an older reading.
RefreshInvalidates ==
  \A c, d \in Clients :
    answer[d].refresh /\ answer[c].askedAt > answer[d].at
      => answer[c].readAt >= answer[d].readAt

=============================================================================

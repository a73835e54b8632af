---------------------------- MODULE KeyLifecycle ----------------------------
(***************************************************************************)
(* The forward-only lifecycle graphs of keyring/models/enums.py and the    *)
(* test keyring/core/lifecycle.py makes before every change of state.      *)
(* KEKs and subject keys have different graphs: only a subject key may go  *)
(* straight from active to destroyed.                                      *)
(***************************************************************************)

KeyState == {"pending", "active", "deprecated", "revoked", "destroyed"}

\* States in which decrypt() and encrypt() refuse a key.
Unusable == {"revoked", "destroyed"}

KekTransitions ==
  { <<"pending", "active">>,     <<"pending", "revoked">>,
    <<"active", "deprecated">>,  <<"active", "revoked">>,
    <<"deprecated", "revoked">>, <<"deprecated", "destroyed">>,
    <<"revoked", "destroyed">> }

SubjectKeyTransitions ==
  { <<"pending", "active">>,     <<"pending", "revoked">>,
    <<"active", "revoked">>,     <<"active", "destroyed">>,
    <<"deprecated", "revoked">>, <<"deprecated", "destroyed">>,
    <<"revoked", "destroyed">> }

\* assert_legal raises IllegalTransition, which ends the request: a guard.
KekMayBecome(from, to) == <<from, to>> \in KekTransitions

SubjectKeyMayBecome(from, to) == <<from, to>> \in SubjectKeyTransitions
=============================================================================

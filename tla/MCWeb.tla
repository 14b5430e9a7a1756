------------------------------- MODULE MCWeb -------------------------------
(***************************************************************************)
(* Four components that share no state with one another or with the        *)
(* engine's loop: credentials, injects, the score view and the reloading   *)
(* of the configuration.  Which of them a behaviour is about is chosen in  *)
(* its first state and the others stay in theirs, so that one run explores *)
(* the sum of their states and not the product.                            *)
(***************************************************************************)
EXTENDS Credentials, Injects, ScoresView, ConfigReload, TLC

VARIABLE part

webVars == <<credVars, injVars, viewVars, confVars, part>>

\* A list with two usernames, so that seeding can stop inside it, which may have
\* had only one of them before; and another one.
Lists == {{"a"}, {"a", "b"}, {"c"}}

\* The defaults; settings that leave the checks a second too much; some that a
\* default makes too tight; and the shortest there are.
Contents ==
  {[delay |-> 0, jitter |-> 0, timeout |-> 0], [delay |-> 10, jitter |-> 2, timeout |-> 8],
   [delay |-> 9, jitter |-> 0, timeout |-> 0], [delay |-> 3, jitter |-> 1, timeout |-> 0]}

\* Teams are alike, and so are the goroutines that serve requests or reload: the
\* components are given the same ones.
Alike == Permutations(Handler) \cup Permutations(InjTeam)

\* All components have an initial state, of which the behaviour's own matters.
WebInit ==
  /\ part \in {"credentials", "injects", "view", "config"}
  /\ CredInit /\ InjInit /\ ViewInit /\ ConfInit
  /\ part # "credentials" => configured = {{"c"}} /\ teams = CredTeam
  /\ part # "config" => file = [delay |-> 0, jitter |-> 0, timeout |-> 0]

WebNext ==
  /\ UNCHANGED part
  /\ \/ part = "credentials" /\ CredNext /\ UNCHANGED <<injVars, viewVars, confVars>>
     \/ part = "injects" /\ InjNext /\ UNCHANGED <<credVars, viewVars, confVars>>
     \/ part = "view" /\ ViewNext /\ UNCHANGED <<credVars, injVars, confVars>>
     \/ part = "config" /\ ConfNext /\ UNCHANGED <<credVars, injVars, viewVars>>

WebSpec == WebInit /\ [][WebNext]_webVars

\* Every variable of the four components has its type, and the flag of the
\* refresh is up exactly while one is under way (engine.go:620-622).
WebTypeOK == CredTypeOK /\ InjTypeOK /\ ViewTypeOK /\ ConfTypeOK

=============================================================================

-------------------------- MODULE AuthRemedies_proofs --------------------------
(* Proofs about AuthRemedies, for any sets of endpoints, collections and flows. *)
(* What makes them work is Carried: what a remedy that has been carried out     *)
(* leaves behind, whatever was there before.  Every check that a command makes  *)
(* holds once the remedy it was refused with has been carried out.              *)
EXTENDS AuthRemedies, SequenceTheorems, WellFoundedInduction, TLAPS

\* What the commands that the advice can name leave behind.
Carried(a) ==
    /\ a.kind = "login" =>
          /\ Services \subseteq tokens
          /\ \A t \in Range(a.targets) :
                /\ Head(t) \in tokens
                /\ Len(t) > 1 => t \in consents
                /\ a.force /\ Head(t) \in Endpoints => Head(t) \in recent
    /\ a.kind \in {"consent", "update"} => Dependent(a.targets) \subseteq consents
    /\ a.kind = "update" =>
          "flows" \in policy /\ Roots(a.targets) \intersect FlowServers \subseteq policy

\* A check that speaks of remedies, and holds once its remedy is carried out.
Remedied(check, c) ==
    /\ check.says \subseteq Remedies
    /\ \A a \in check.says : a.then = c /\ Carried(a) => check.holds

OneTargetPerServer(targets) == \A t, u \in targets : Head(t) = Head(u) => t = u

Followed == followed => advice # None /\ Carried(advice)

\* With one option there is one target.
Single == MaxTargets <= 1 => requested = {} \/ \E t \in Targets : requested = {t}

RemedyInv ==
    TypeOK /\ Followed /\ Single /\ (OneTargetPerServer(requested) => LoginCoversTargets)
-------------------------------------------------------------------------------
(* Sequences and requirements. *)

LEMMA Tuples ==
  /\ \A x : Head(<<x>>) = x /\ Len(<<x>>) = 1 /\ Range(<<x>>) = {x}
  /\ \A x, y : Head(<<x, y>>) = x /\ Len(<<x, y>>) = 2
  /\ \A x, y, z : Head(<<x, y, z>>) = x /\ Len(<<x, y, z>>) = 3
  /\ Range(<<>>) = {}
  BY DEF Range

LEMMA LeastNumber ==
  ASSUME NEW S, S \subseteq Nat, S # {}
  PROVE  \E m \in S : \A k \in S : m <= k
  <1> DEFINE R == {ss \in Nat \X Nat : ss[1] < ss[2]}
  <1>1. IsWellFoundedOn(R, Nat)
    BY NatLessThanWellFounded DEF OpToRel
  <1>2. \A x, y \in Nat : <<y, x>> \in R <=> y < x
    OBVIOUS
  <1> HIDE DEF R
  <1>3. PICK m \in S : \A k \in S : <<k, m>> \notin R
    BY <1>1, WFMin
  <1>4. \A k \in S : m <= k
    <2> TAKE k \in S
    <2>1. m \in Nat /\ k \in Nat /\ ~(k < m)
      BY <1>2, <1>3
    <2> QED BY <2>1
  <1> QED BY <1>4

LEMMA MaxIsMember ==
  ASSUME NEW n \in Nat, NEW S, S \subseteq 1..n, S # {}
  PROVE  Max(S) \in S
  <1> DEFINE T == {n - i : i \in S}
  <1>1. T \subseteq Nat /\ T # {}
    <2>1. \A i \in S : n - i \in Nat
      OBVIOUS
    <2> QED BY <2>1
  <1>2. PICK m \in T : \A k \in T : m <= k
    BY <1>1, LeastNumber
  <1>3. PICK x \in S : m = n - x
    OBVIOUS
  <1>4. \A y \in S : x >= y
    <2> TAKE y \in S
    <2>1. n - x <= n - y
      BY <1>2, <1>3
    <2> QED BY <2>1
  <1> QED BY <1>4 DEF Max

\* Where no two targets share a resource server none of them is replaced.
LEMMA NoneReplaced ==
  ASSUME NEW targets \in Seq(Targets), OneTargetPerServer(Range(targets)),
         NEW t \in Range(targets)
  PROVE  Head(t) \in DOMAIN Requirements(targets) /\ Requirements(targets)[Head(t)] = {t}
  <1> DEFINE S == {i \in DOMAIN targets : Head(targets[i]) = Head(t)}
  <1>1. Len(targets) \in Nat /\ DOMAIN targets = 1..Len(targets)
    OBVIOUS
  <1>2. PICK i \in DOMAIN targets : targets[i] = t
    BY DEF Range
  <1>3. Max(S) \in S
    BY <1>1, <1>2, MaxIsMember
  <1>4. targets[Max(S)] = t
    BY <1>3 DEF OneTargetPerServer, Range
  <1>5. Head(t) \in Roots(Range(targets))
    BY DEF Roots
  <1> QED BY <1>4, <1>5 DEF Requirements

LEMMA OneRequirement ==
  ASSUME NEW t \in Targets
  PROVE  /\ Head(t) \in DOMAIN Requirements(<<t>>) /\ Requirements(<<t>>)[Head(t)] = {t}
         /\ <<t>> \in Seq(Targets) /\ OneTargetPerServer(Range(<<t>>))
  <1>1. <<t>> \in Seq(Targets) /\ Range(<<t>>) = {t}
    BY Tuples
  <1>2. OneTargetPerServer(Range(<<t>>)) /\ t \in Range(<<t>>)
    BY <1>1 DEF OneTargetPerServer
  <1> QED BY <1>1, <1>2, NoneReplaced

LEMMA RequiredTargets ==
  ASSUME NEW targets \in Seq(Targets)
  PROVE  UNION Range(Requirements(targets)) \subseteq Range(targets)
  <1> SUFFICES ASSUME NEW rs \in Roots(Range(targets))
               PROVE  Requirements(targets)[rs] \subseteq Range(targets)
    BY DEF Requirements, Range
  <1> DEFINE S == {i \in DOMAIN targets : Head(targets[i]) = rs}
  <1>1. Len(targets) \in Nat /\ DOMAIN targets = 1..Len(targets)
    OBVIOUS
  <1>2. S # {}
    BY DEF Roots, Range
  <1>3. Max(S) \in S
    BY <1>1, <1>2, MaxIsMember
  <1>4. targets[Max(S)] \in Range(targets)
    BY <1>3 DEF Range
  <1> QED BY <1>4 DEF Requirements
-------------------------------------------------------------------------------
(* What a login leaves behind. *)

Servers == Services \union Endpoints \union Flows

SessionTypes ==
    /\ consents \subseteq Dependent(Paths)
    /\ tokens \subseteq Servers
    /\ recent \subseteq tokens \intersect Endpoints
    /\ policy \subseteq tokens \intersect FlowServers

LEMMA RootsOfPaths ==
  /\ Roots(Paths) \subseteq Servers
  /\ Targets \subseteq Paths
  /\ LoginScopes \subseteq Paths /\ Roots(LoginScopes) = Services
  <1>1. \A p \in LoginScopes : Head(p) \in Services
    BY Tuples DEF LoginScopes
  <1>2. \A p \in Targets : Head(p) \in Servers
    <2>1. \A c \in Collections : Owner[c] \in Endpoints
      BY OwnerAssumption
    <2>2. "timers" \in Services
      BY DEF Services
    <2> QED BY Tuples, <2>1, <2>2 DEF Targets, Servers
  <1>3. \A p \in RunScopes \union TimerScopes \union {DataAccess(c) : c \in Collections} :
           Head(p) \in Servers
    <2>1. "timers" \in Services /\ "transfer" \in Services
      BY DEF Services
    <2>2. \A f \in Flows, c \in Collections : Head(<<f, c>>) = f
      BY Tuples
    <2>3. \A c \in Collections : Head(DataAccess(c)) = "transfer"
      BY Tuples DEF DataAccess
    <2>4. \A c \in Collections : Head(TimerDataAccess(c)) = "timers"
      BY Tuples DEF TimerDataAccess
    <2> QED BY <2>1, <2>2, <2>3, <2>4 DEF RunScopes, TimerScopes, Servers
  <1>4. Roots(LoginScopes) = Services
    <2>1. \A s \in Services : <<s>> \in LoginScopes /\ Head(<<s>>) = s
      BY Tuples DEF LoginScopes
    <2> QED BY <1>1, <2>1 DEF Roots
  <1> QED BY <1>1, <1>2, <1>3, <1>4 DEF Paths, Roots, Servers

LEMMA LoggedInLeaves ==
  ASSUME NEW paths, NEW with_policy, LoggedIn(paths, with_policy)
  PROVE  /\ Roots(paths) \subseteq tokens' /\ Dependent(paths) \subseteq consents'
         /\ Roots(paths) \intersect Endpoints \subseteq recent'
         /\ with_policy = TRUE => Roots(paths) \intersect FlowServers \subseteq policy'
  BY DEF LoggedIn

LEMMA LoggedInTypes ==
  ASSUME SessionTypes, NEW paths, paths \subseteq Paths, NEW with_policy,
         LoggedIn(paths, with_policy)
  PROVE  SessionTypes'
  <1>1. Roots(paths) \subseteq Servers /\ Dependent(paths) \subseteq Dependent(Paths)
    BY RootsOfPaths DEF Roots, Dependent
  <1>2. consents' = consents \union Dependent(paths) /\ tokens' = tokens \union Roots(paths)
        /\ recent' = recent \union (Roots(paths) \intersect Endpoints)
        /\ policy' \subseteq policy \union (Roots(paths) \intersect FlowServers)
    BY DEF LoggedIn
  <1> QED BY <1>1, <1>2 DEF SessionTypes

LEMMA LoginLeaves ==
  ASSUME NEW targets \in Seq(Targets), NEW force, LoginCommand(targets, force),
         OneTargetPerServer(Range(targets))
  PROVE  /\ Services \subseteq tokens'
         /\ \A t \in Range(targets) :
               /\ Head(t) \in tokens'
               /\ Len(t) > 1 => t \in consents'
               /\ force = TRUE /\ Head(t) \in Endpoints => Head(t) \in recent'
  <1> DEFINE req == Requirements(targets)
  <1>1. \A t \in Range(targets) : Head(t) \in DOMAIN req /\ req[Head(t)] = {t}
    BY NoneReplaced
  <1> HIDE DEF req
  <1>2. CASE ~force /\ IsLoggedIn(req)
    <2>1. UNCHANGED session
      BY <1>2 DEF LoginCommand, req
    <2>2. \A rs \in Services \union DOMAIN req : HasLogin(rs, req)
      BY <1>2 DEF IsLoggedIn
    <2>3. \A t \in Range(targets) : Head(t) \in tokens /\ (Len(t) > 1 => t \in consents)
      BY <1>1, <2>2 DEF HasLogin
    <2> QED BY <1>2, <2>1, <2>2, <2>3 DEF HasLogin, session
  <1>3. CASE ~(~force /\ IsLoggedIn(req))
    <2> DEFINE paths == LoginScopes \union UNION Range(req)
    <2>1. LoggedIn(paths, FALSE)
      BY <1>3 DEF LoginCommand, req
    <2>2. \A t \in Range(targets) : t \in paths
      BY <1>1 DEF Range
    <2>3. /\ Services \subseteq Roots(paths)
          /\ \A t \in Range(targets) : Head(t) \in Roots(paths)
          /\ \A t \in Range(targets) : Len(t) > 1 => t \in Dependent(paths)
      BY <2>2, RootsOfPaths DEF Roots, Dependent
    <2> QED BY <2>1, <2>3, LoggedInLeaves
  <1> QED BY <1>2, <1>3

LEMMA LoginTypes ==
  ASSUME SessionTypes, NEW targets \in Seq(Targets), NEW force, LoginCommand(targets, force)
  PROVE  SessionTypes'
  <1>1. CASE UNCHANGED session
    BY <1>1 DEF SessionTypes, session
  <1>2. CASE LoggedIn(LoginScopes \union UNION Range(Requirements(targets)), FALSE)
    <2>1. Range(targets) \subseteq Targets
      BY DEF Range
    <2>2. LoginScopes \union UNION Range(Requirements(targets)) \subseteq Paths
      BY <2>1, RootsOfPaths, RequiredTargets
    <2> QED BY <1>2, <2>2, LoggedInTypes
  <1> QED BY <1>1, <1>2 DEF LoginCommand

\* What the user was told to do leaves behind what Carried says.
LEMMA FollowLeaves ==
  ASSUME TypeOK, Follow
  PROVE  Carried(advice)' /\ SessionTypes'
  <1>1. advice \in Remedies /\ advice' = advice /\ SessionTypes
    BY DEF Follow, TypeOK, SessionTypes, Servers
  <1>2. "flows" \in FlowServers /\ "flows" \in Services
    BY DEF FlowServers, Services
  <1>3. CASE advice.kind = "login"
    <2>1. /\ LoginCommand(advice.targets, advice.force)
          /\ advice.targets = <<>> \/ \E t \in Targets : advice.targets = <<t>>
      BY <1>1, <1>3 DEF Follow, Remedies
    <2>2. advice.targets \in Seq(Targets) /\ OneTargetPerServer(Range(advice.targets))
      <3>1. CASE advice.targets = <<>>
        BY <3>1, Tuples DEF OneTargetPerServer
      <3>2. CASE \E t \in Targets : advice.targets = <<t>>
        BY <3>2, OneRequirement
      <3> QED BY <2>1, <3>1, <3>2
    <2>3. SessionTypes'
      BY <1>1, <2>1, <2>2, LoginTypes
    <2>4. /\ Services \subseteq tokens'
          /\ \A t \in Range(advice.targets) :
               /\ Head(t) \in tokens'
               /\ Len(t) > 1 => t \in consents'
               /\ advice.force = TRUE /\ Head(t) \in Endpoints => Head(t) \in recent'
      BY <2>1, <2>2, LoginLeaves
    <2>5. advice.force \in BOOLEAN
      BY <1>1, <1>3 DEF Remedies
    <2> QED BY <1>1, <1>3, <2>3, <2>4, <2>5 DEF Carried
  <1>4. CASE advice.kind = "consent"
    <2>1. LoggedIn(advice.targets \union {<<"auth">>}, FALSE)
      BY <1>4 DEF Follow, ConsentCommand
    <2>2. advice.targets \union {<<"auth">>} \subseteq Paths
      BY <1>1, <1>4, RootsOfPaths DEF Remedies, LoginScopes, Services
    <2>3. Dependent(advice.targets) \subseteq consents'
      <3>1. Dependent(advice.targets \union {<<"auth">>}) \subseteq consents'
        BY <2>1, LoggedInLeaves
      <3> QED BY <3>1 DEF Dependent
    <2> QED BY <1>1, <1>4, <2>1, <2>2, <2>3, LoggedInTypes DEF Carried
  <1>5. CASE advice.kind = "update"
    <2>1. LoggedIn(LoginScopes \union advice.targets, TRUE)
      BY <1>5 DEF Follow, UpdateCommand
    <2>2. LoginScopes \union advice.targets \subseteq Paths
      BY <1>1, <1>5, RootsOfPaths DEF Remedies
    <2>3. Dependent(advice.targets) \subseteq consents'
      <3>1. Dependent(LoginScopes \union advice.targets) \subseteq consents'
        BY <2>1, LoggedInLeaves
      <3> QED BY <3>1 DEF Dependent
    <2>4. Services \subseteq Roots(LoginScopes \union advice.targets)
          /\ Roots(advice.targets) \subseteq Roots(LoginScopes \union advice.targets)
      BY RootsOfPaths DEF Roots
    <2>5. "flows" \in policy' /\ Roots(advice.targets) \intersect FlowServers \subseteq policy'
      BY <1>2, <2>1, <2>4, LoggedInLeaves
    <2> QED BY <1>1, <1>5, <2>1, <2>2, <2>3, <2>5, LoggedInTypes DEF Carried
  <1> QED BY <1>1, <1>3, <1>4, <1>5 DEF Remedies
-------------------------------------------------------------------------------
(* The checks. *)

\* The parts of a command.
LEMMA CommandParts ==
  ASSUME NEW c \in Commands
  PROVE  \/ c.name \in {"ls", "guest"} /\ c.collection \in Collections
         \/ c.name = "gcs" /\ c.endpoint \in Endpoints
         \/ c.name = "timer_transfer" /\ c.collections \subseteq Collections
         \/ c.name \in {"flow_show", "flow_start", "timer_flow"} /\ c.flow \in Flows
         \/ /\ c.name = "run_resume" /\ c.flow \in Flows /\ c.skip \in BOOLEAN
            /\ [c EXCEPT !.skip = TRUE] \in Commands
         \/ /\ c.name = "timer_resume" /\ c.skip \in BOOLEAN
            /\ [c EXCEPT !.skip = TRUE] \in Commands
  <1>1. CASE c \in [name : {"ls", "guest"}, collection : Collections]
    BY <1>1
  <1>2. CASE c \in [name : {"gcs"}, endpoint : Endpoints]
    BY <1>2
  <1>3. CASE c \in [name : {"timer_transfer"}, collections : SUBSET Collections]
    BY <1>3
  <1>4. CASE c \in [name : {"flow_show", "flow_start", "timer_flow"}, flow : Flows]
    BY <1>4
  <1>5. CASE c \in [name : {"run_resume"}, flow : Flows, skip : BOOLEAN]
    BY <1>5 DEF Commands
  <1>6. CASE c \in [name : {"timer_resume"}, skip : BOOLEAN]
    BY <1>6 DEF Commands
  <1> QED BY <1>1, <1>2, <1>3, <1>4, <1>5, <1>6 DEF Commands

LEMMA LoginRemedies ==
  ASSUME NEW c \in Commands, NEW force \in BOOLEAN, NEW t \in Targets
  PROVE  Advice("login", <<>>, force, c) \in Remedies /\ Advice("login", <<t>>, force, c) \in Remedies
  BY DEF Advice, Remedies

LEMMA ScopeRemedies ==
  ASSUME NEW c \in Commands, NEW kind \in {"consent", "update"}, NEW paths, paths \subseteq Paths
  PROVE  Advice(kind, paths, FALSE, c) \in Remedies
  BY DEF Advice, Remedies

LEMMA DependentPaths ==
  /\ \A c \in Collections : DataAccess(c) \in Dependent(Paths)
  /\ \A c \in Collections : TimerDataAccess(c) \in Dependent(Paths)
  /\ RunScopes \subseteq Dependent(Paths) /\ TimerScopes \subseteq Dependent(Paths)
  /\ \A f \in Flows : <<f>> \in Paths /\ <<f>> \in Targets /\ <<"timers", f>> \in Targets
  /\ \A e \in Endpoints : <<e>> \in Targets
  /\ \A S : S \subseteq Dependent(Paths) => S \subseteq Paths /\ Dependent(S) = S
  <1>1. \A c \in Collections : /\ DataAccess(c) \in Paths /\ Len(DataAccess(c)) = 2
                               /\ TimerDataAccess(c) \in Paths /\ Len(TimerDataAccess(c)) = 3
    BY Tuples DEF Paths, DataAccess, TimerDataAccess, TimerScopes
  <1>2. RunScopes \subseteq Paths /\ TimerScopes \subseteq Paths
    BY DEF Paths
  <1>3. \A p \in RunScopes : Len(p) = 2
    BY Tuples DEF RunScopes
  <1>4. \A p \in TimerScopes : Len(p) = 3
    BY Tuples DEF TimerScopes, TimerDataAccess
  <1>5. /\ \A f \in Flows : <<f>> \in Targets /\ <<"timers", f>> \in Targets
        /\ \A e \in Endpoints : <<e>> \in Targets
    BY DEF Targets
  <1> QED BY <1>1, <1>2, <1>3, <1>4, <1>5, RootsOfPaths DEF Dependent

LEMMA OneRemedy ==
  ASSUME NEW c, NEW a \in Remedies, NEW holds \in BOOLEAN, a.then = c /\ Carried(a) => holds
  PROVE  Remedied(Check(holds, {a}), c)
  <1> DEFINE check == Check(holds, {a})
  <1>1. check.holds = holds /\ check.says = {a}
    BY DEF Check
  <1> HIDE DEF check
  <1>2. Remedied(check, c)
    BY <1>1 DEF Remedied
  <1> QED BY <1>2 DEF check

LEMMA ServicesRemedied ==
  ASSUME NEW c \in Commands
  PROVE  Remedied(Check(ServicesOf(c) \subseteq tokens, {Advice("login", <<>>, FALSE, c)}), c)
  <1> DEFINE a == Advice("login", <<>>, FALSE, c)
  <1>1. ServicesOf(c) \subseteq Services
    BY CommandParts DEF ServicesOf, Services
  <1>2. a \in Remedies /\ a.kind = "login"
    BY DEF Advice, Remedies
  <1> HIDE DEF a
  <1>3. Carried(a) => Services \subseteq tokens
    BY <1>2 DEF Carried
  <1>4. Remedied(Check(ServicesOf(c) \subseteq tokens, {a}), c)
    BY <1>1, <1>2, <1>3, OneRemedy
  <1> QED BY <1>4 DEF a

LEMMA RequiresRemedied ==
  ASSUME NEW c \in Commands, NEW t \in Targets
  PROVE  Remedied(Requires(t, c), c)
  <1> DEFINE a == Advice("login", <<t>>, FALSE, c)
             holds == HasLogin(Head(t), Requirements(<<t>>))
  <1>1. a \in Remedies /\ a.kind = "login" /\ t \in Range(a.targets)
    <2>1. a \in Remedies
      BY LoginRemedies
    <2>2. a.kind = "login" /\ a.targets = <<t>>
      BY DEF Advice
    <2> QED BY <2>1, <2>2, Tuples
  <1>2. Requires(t, c) = Check(holds, {a}) /\ holds \in BOOLEAN
    BY DEF Requires, LoginFor, HasLogin
  <1>3. Head(t) \in tokens /\ (Len(t) > 1 => t \in consents) => holds
    BY OneRequirement DEF HasLogin
  <1> HIDE DEF a, holds
  <1>4. Carried(a) => Head(t) \in tokens /\ (Len(t) > 1 => t \in consents)
    BY <1>1 DEF Carried
  <1> QED BY <1>1, <1>2, <1>3, <1>4, OneRemedy

LEMMA DataAccessTargets ==
  ASSUME NEW c \in Collections
  PROVE  DataAccessTarget(c) \in Targets /\ Head(DataAccessTarget(c)) = Owner[c] /\ Owner[c] \in Endpoints
  <1>1. Owner[c] \in Endpoints
    BY OwnerAssumption
  <1>2. <<Owner[c]>> \in Targets /\ <<Owner[c], c>> \in Targets
    BY <1>1 DEF Targets
  <1> QED BY <1>1, <1>2, Tuples DEF DataAccessTarget

LEMMA RecentRemedied ==
  ASSUME NEW c \in Commands, c.name = "guest", NEW holds \in BOOLEAN,
         Owner[c.collection] \in recent => holds
  PROVE  Remedied(Check(holds, LoginFor(DataAccessTarget(c.collection), TRUE, c)), c)
  <1> DEFINE t == DataAccessTarget(c.collection)
             a == Advice("login", <<t>>, TRUE, c)
  <1>1. t \in Targets /\ Head(t) = Owner[c.collection] /\ Owner[c.collection] \in Endpoints
    BY CommandParts, DataAccessTargets
  <1> HIDE DEF t
  <1>2. a \in Remedies /\ a.kind = "login" /\ t \in Range(a.targets) /\ a.force = TRUE
    <2>1. a \in Remedies
      BY <1>1, LoginRemedies
    <2>2. a.kind = "login" /\ a.targets = <<t>> /\ a.force = TRUE
      BY DEF Advice
    <2> QED BY <2>1, <2>2, Tuples
  <1>3. LoginFor(t, TRUE, c) = {a}
    BY DEF LoginFor
  <1> HIDE DEF a
  <1>4. Carried(a) => Owner[c.collection] \in recent
    BY <1>1, <1>2 DEF Carried
  <1>5. Remedied(Check(holds, LoginFor(t, TRUE, c)), c)
    BY <1>2, <1>3, <1>4, OneRemedy
  <1> QED BY <1>5 DEF t

\* Scopes to consent to, and a check that only needs them.
LEMMA ScopesRemedied ==
  ASSUME NEW c \in Commands, NEW kind \in {"consent", "update"}, NEW paths,
         paths \subseteq Dependent(Paths), NEW holds \in BOOLEAN, paths \subseteq consents => holds
  PROVE  Remedied(Check(holds, {Advice(kind, paths, FALSE, c)}), c)
  <1> DEFINE a == Advice(kind, paths, FALSE, c)
  <1>1. a \in Remedies /\ a.kind = kind /\ a.targets = paths
    <2>1. a \in Remedies
      BY DependentPaths, ScopeRemedies
    <2>2. a.kind = kind /\ a.targets = paths
      BY DEF Advice
    <2> QED BY <2>1, <2>2
  <1>2. Dependent(paths) = paths
    BY DependentPaths
  <1> HIDE DEF a
  <1>3. Carried(a) => paths \subseteq consents
    BY <1>1, <1>2 DEF Carried
  <1>4. Remedied(Check(holds, {a}), c)
    BY <1>1, <1>3, OneRemedy
  <1> QED BY <1>4 DEF a

LEMMA SessionRemedied ==
  ASSUME NEW c \in Commands, NEW f \in Flows, NEW rs, NEW injected,
         \/ rs = "flows" /\ injected \subseteq {{<<f>>}, {}}
         \/ rs = f /\ injected = {{<<f>>}}
  PROVE  Remedied(FlowSession(f, rs, injected, c), c)
  <1> DEFINE check == FlowSession(f, rs, injected, c)
  <1>1. /\ rs \in policy => check.holds
        /\ check.says = {Advice("update", paths, FALSE, c) : paths \in injected}
    BY DEF FlowSession, Check
  <1>2. ASSUME NEW paths \in injected, NEW a, a = Advice("update", paths, FALSE, c)
        PROVE  a \in Remedies /\ (Carried(a) => rs \in policy)
    <2>1. paths = {<<f>>} \/ (rs = "flows" /\ paths = {})
      <3>1. CASE rs = "flows" /\ injected \subseteq {{<<f>>}, {}}
        BY <1>2, <3>1
      <3>2. CASE rs = f /\ injected = {{<<f>>}}
        BY <1>2, <3>2
      <3> QED BY <3>1, <3>2
    <2>2. paths \subseteq Paths
      <3>1. <<f>> \in Paths
        BY DependentPaths
      <3> QED BY <2>1, <3>1
    <2>3. a \in Remedies /\ a.kind = "update" /\ a.targets = paths
      <3>1. a \in Remedies
        BY <1>2, <2>2, ScopeRemedies
      <3>2. a.kind = "update" /\ a.targets = paths
        BY <1>2 DEF Advice
      <3> QED BY <3>1, <3>2
    <2>4. Carried(a) => "flows" \in policy /\ Roots(paths) \intersect FlowServers \subseteq policy
      BY <2>3 DEF Carried
    <2>5. rs = f /\ paths = {<<f>>} => f \in Roots(paths) \intersect FlowServers
      BY Tuples DEF Roots, FlowServers
    <2>6. rs = "flows" \/ (rs = f /\ paths = {<<f>>})
      BY <1>2
    <2> QED BY <2>3, <2>4, <2>5, <2>6
  <1> HIDE DEF check
  <1>3. \A a \in check.says : a \in Remedies /\ (Carried(a) => check.holds)
    BY <1>1, <1>2
  <1>4. Remedied(check, c)
    BY <1>3 DEF Remedied
  <1> QED BY <1>4 DEF check

\* A reason to be inactive: consents that can be looked up, and a policy after
\* which the command is to be run with --skip-inactive-reason-check.
ReasonScopes(r, c) == Check(r.scopes \subseteq consents, GareAdvice(r, c))
ReasonPolicy(r, c) == Check(~r.policy, GareAdvice(r, [c EXCEPT !.skip = TRUE]))

LEMMA ReasonRemedied ==
  ASSUME NEW c \in Commands, c.name \in {"run_resume", "timer_resume"}, ~c.skip,
         NEW S, S \subseteq Dependent(Paths), NEW r \in Reason(S)
  PROVE  Remedied(ReasonScopes(r, c), c) /\ Remedied(ReasonPolicy(r, c), c)
  <1> DEFINE again == [c EXCEPT !.skip = TRUE]
  <1>1. again \in Commands /\ c.skip \in BOOLEAN
    BY CommandParts
  <1>2. again # c
    <2>1. again.skip = TRUE
      <3>1. CASE c \in [name : {"run_resume"}, flow : Flows, skip : BOOLEAN]
        BY <3>1
      <3>2. CASE c \in [name : {"timer_resume"}, skip : BOOLEAN]
        BY <3>2
      <3> QED BY <3>1, <3>2 DEF Commands
    <2> QED BY <1>1, <2>1
  <1> HIDE DEF again
  <1>3. r.scopes \subseteq S /\ r.policy \in BOOLEAN
    BY DEF Reason
  <1> DEFINE kind == IF r.policy THEN "update" ELSE "consent"
             a == Advice(kind, r.scopes, FALSE, again)
             scopes == Check(r.scopes \subseteq consents, {Advice(kind, r.scopes, FALSE, c)})
             session_policy == Check(~r.policy, {a})
  <1>4. ReasonScopes(r, c) = scopes /\ ReasonPolicy(r, c) = session_policy
    BY DEF ReasonScopes, ReasonPolicy, GareAdvice, again
  <1>5. kind \in {"consent", "update"} /\ r.scopes \subseteq Dependent(Paths)
    BY <1>3
  <1> HIDE DEF kind
  <1>6. Remedied(scopes, c)
    BY <1>5, ScopesRemedied
  <1>7. Remedied(session_policy, c)
    <2>1. a \in Remedies /\ a.then = again
      <3>1. a \in Remedies
        BY <1>1, <1>5, ScopeRemedies, DependentPaths
      <3>2. a.then = again
        BY DEF Advice
      <3> QED BY <3>1, <3>2
    <2> HIDE DEF a
    <2> QED BY <1>2, <2>1, OneRemedy
  <1> QED BY <1>4, <1>6, <1>7
-------------------------------------------------------------------------------
(* The check that a command is refused for: the first one that fails. *)

IsSeq(s) == s \in Seq(Range(s))
AllHold(s) == \A i \in DOMAIN s : s[i].holds
FirstFails(s, check) ==
    \E i \in DOMAIN s : s[i] = check /\ ~s[i].holds /\ \A j \in DOMAIN s : j < i => s[j].holds

LEMMA ShortSeqs ==
  /\ IsSeq(<<>>) /\ \A check : ~FirstFails(<<>>, check)
  /\ \A a : /\ IsSeq(<<a>>) /\ (AllHold(<<a>>) => a.holds)
            /\ \A check : FirstFails(<<a>>, check) => check = a /\ ~a.holds
  /\ \A a, b :
        /\ IsSeq(<<a, b>>) /\ (AllHold(<<a, b>>) => a.holds /\ b.holds)
        /\ \A check : FirstFails(<<a, b>>, check) =>
              \/ check = a /\ ~a.holds
              \/ check = b /\ a.holds /\ ~b.holds
  <1>1. IsSeq(<<>>) /\ \A check : ~FirstFails(<<>>, check)
    BY DEF IsSeq, FirstFails
  <1>2. ASSUME NEW a
        PROVE  /\ IsSeq(<<a>>) /\ (AllHold(<<a>>) => a.holds)
               /\ \A check : FirstFails(<<a>>, check) => check = a /\ ~a.holds
    <2>1. DOMAIN <<a>> = {1} /\ <<a>>[1] = a /\ <<a>> \in Seq({a}) /\ Range(<<a>>) = {a}
      BY Tuples
    <2> QED BY <2>1 DEF IsSeq, AllHold, FirstFails
  <1>3. ASSUME NEW a, NEW b
        PROVE  /\ IsSeq(<<a, b>>) /\ (AllHold(<<a, b>>) => a.holds /\ b.holds)
               /\ \A check : FirstFails(<<a, b>>, check) =>
                     \/ check = a /\ ~a.holds
                     \/ check = b /\ a.holds /\ ~b.holds
    <2> DEFINE s == <<a, b>>
    <2>1. DOMAIN s = {1, 2} /\ s[1] = a /\ s[2] = b /\ s \in Seq({a, b})
      OBVIOUS
    <2>2. Range(s) = {a, b}
      BY <2>1 DEF Range
    <2> HIDE DEF s
    <2>3. IsSeq(s) /\ (AllHold(s) => a.holds /\ b.holds)
      BY <2>1, <2>2 DEF IsSeq, AllHold
    <2>4. ASSUME NEW check, FirstFails(s, check)
          PROVE  (check = a /\ ~a.holds) \/ (check = b /\ a.holds /\ ~b.holds)
      BY <2>1, <2>4 DEF FirstFails
    <2> QED BY <2>3, <2>4 DEF s
  <1> QED BY <1>1, <1>2, <1>3

LEMMA JoinedSeqs ==
  ASSUME NEW s, NEW t, IsSeq(s), IsSeq(t)
  PROVE  /\ IsSeq(s \o t)
         /\ AllHold(s \o t) => AllHold(s) /\ AllHold(t)
         /\ \A check : FirstFails(s \o t, check) =>
               FirstFails(s, check) \/ (AllHold(s) /\ FirstFails(t, check))
  <1> DEFINE S == Range(s) \union Range(t)
             u == s \o t
  <1>1. s \in Seq(S) /\ t \in Seq(S)
    BY SeqMonotonic DEF IsSeq
  <1> HIDE DEF S
  <1>2. /\ u \in Seq(S) /\ Len(u) = Len(s) + Len(t)
        /\ \A k \in 1..Len(s) + Len(t) : u[k] = IF k <= Len(s) THEN s[k] ELSE t[k - Len(s)]
    BY <1>1, ConcatProperties
  <1>3. /\ DOMAIN u = 1..Len(s) + Len(t) /\ DOMAIN s = 1..Len(s) /\ DOMAIN t = 1..Len(t)
        /\ Len(s) \in Nat /\ Len(t) \in Nat
    BY <1>1, <1>2, LenProperties
  <1> HIDE DEF u
  <1>4. IsSeq(u)
    BY <1>2, RangeOfSeq, SeqOfRange DEF IsSeq
  <1>5. /\ \A i \in DOMAIN s : i \in DOMAIN u /\ u[i] = s[i]
        /\ \A i \in DOMAIN t : i + Len(s) \in DOMAIN u /\ u[i + Len(s)] = t[i]
    BY <1>2, <1>3
  <1>6. AllHold(u) => AllHold(s) /\ AllHold(t)
    BY <1>5 DEF AllHold
  <1>7. ASSUME NEW check, FirstFails(u, check)
        PROVE  FirstFails(s, check) \/ (AllHold(s) /\ FirstFails(t, check))
    <2>1. PICK i \in DOMAIN u : /\ u[i] = check /\ ~u[i].holds
                                /\ \A j \in DOMAIN u : j < i => u[j].holds
      BY <1>7 DEF FirstFails
    <2>2. CASE i <= Len(s)
      <3>1. i \in DOMAIN s /\ u[i] = s[i]
        BY <1>2, <1>3, <2>2
      <3> QED BY <1>5, <2>1, <3>1 DEF FirstFails
    <2>3. CASE ~(i <= Len(s))
      <3>1. i - Len(s) \in DOMAIN t /\ u[i] = t[i - Len(s)]
        BY <1>2, <1>3, <2>3
      <3>2. \A j \in DOMAIN s : s[j].holds
        BY <1>3, <1>5, <2>1, <2>3
      <3>3. \A j \in DOMAIN t : j < i - Len(s) => t[j].holds
        BY <1>3, <1>5, <2>1
      <3> QED BY <2>1, <3>1, <3>2, <3>3 DEF AllHold, FirstFails
    <2> QED BY <1>3, <2>2, <2>3
  <1> QED BY <1>4, <1>6, <1>7 DEF u

ServicesCheck(c) == Check(ServicesOf(c) \subseteq tokens, {Advice("login", <<>>, FALSE, c)})
ListCheck(c) ==
    Check(RequiresDataAccess(c.collection) => DataAccess(c.collection) \in consents,
          {Advice("consent", {DataAccess(c.collection)}, FALSE, c)})
RecentCheck(c) ==
    Check(c.collection \in high_assurance => Head(DataAccessTarget(c.collection)) \in recent,
          LoginFor(DataAccessTarget(c.collection), TRUE, c))
Needed(c) == {TimerDataAccess(d) : d \in {d \in c.collections : RequiresDataAccess(d)}}
NeededCheck(c) ==
    Check(Needed(c) \subseteq consents, {Advice("consent", Needed(c) \ consents, FALSE, c)})

LEMMA InactiveChecks ==
  ASSUME NEW r, NEW c
  PROVE  /\ IsSeq(InactiveReason(r, c))
         /\ AllHold(InactiveReason(r, c)) /\ ~c.skip /\ r # None =>
               ReasonScopes(r, c).holds /\ ReasonPolicy(r, c).holds
         /\ \A check : FirstFails(InactiveReason(r, c), check) =>
               /\ ~c.skip /\ r # None
               /\ \/ check = ReasonScopes(r, c) /\ ~ReasonScopes(r, c).holds
                  \/ check = ReasonPolicy(r, c) /\ ReasonScopes(r, c).holds
                     /\ ~ReasonPolicy(r, c).holds
  <1>1. CASE c.skip \/ r = None
    <2>1. InactiveReason(r, c) = <<>>
      BY <1>1 DEF InactiveReason
    <2> QED BY <1>1, <2>1, ShortSeqs
  <1>2. CASE ~(c.skip \/ r = None)
    <2>1. InactiveReason(r, c) = <<ReasonScopes(r, c), ReasonPolicy(r, c)>>
      BY <1>2 DEF InactiveReason, ReasonScopes, ReasonPolicy
    <2> QED BY <1>2, <2>1, ShortSeqs
  <1> QED BY <1>1, <1>2

LEMMA RunResumeChecks ==
  ASSUME NEW c, c.name = "run_resume", NEW check
  PROVE  LET session1 == FlowSession(c.flow, "flows", InjectedIfFound(c.flow), c)
             login == Requires(<<c.flow>>, c)
             session2 == FlowSession(c.flow, c.flow, Injected(c.flow), c)
         IN  /\ IsSeq(ChecksAfterLogin(c))
             /\ FirstFails(ChecksAfterLogin(c), check) =>
                   \/ check = session1 /\ ~session1.holds
                   \/ check = login /\ session1.holds /\ ~login.holds
                   \/ /\ session1.holds /\ login.holds
                      /\ FirstFails(InactiveReason(reason.run, c), check)
                   \/ /\ session1.holds /\ login.holds /\ AllHold(InactiveReason(reason.run, c))
                      /\ check = session2 /\ ~session2.holds
  <1> DEFINE session1 == FlowSession(c.flow, "flows", InjectedIfFound(c.flow), c)
             login == Requires(<<c.flow>>, c)
             session2 == FlowSession(c.flow, c.flow, Injected(c.flow), c)
             inactive == InactiveReason(reason.run, c)
             front == <<session1, login>>
  <1>1. ChecksAfterLogin(c) = front \o inactive \o <<session2>>
    BY DEF ChecksAfterLogin
  <1>2. IsSeq(inactive) /\ IsSeq(front) /\ IsSeq(<<session2>>)
    BY ShortSeqs, InactiveChecks
  <1>3. /\ AllHold(front) => session1.holds /\ login.holds
        /\ FirstFails(front, check) => \/ check = session1 /\ ~session1.holds
                                       \/ check = login /\ session1.holds /\ ~login.holds
        /\ FirstFails(<<session2>>, check) => check = session2 /\ ~session2.holds
    BY ShortSeqs
  <1> HIDE DEF session1, login, session2, inactive, front
  <1>4. /\ IsSeq(front \o inactive)
        /\ AllHold(front \o inactive) => AllHold(front) /\ AllHold(inactive)
        /\ FirstFails(front \o inactive, check) =>
              FirstFails(front, check) \/ (AllHold(front) /\ FirstFails(inactive, check))
    BY <1>2, JoinedSeqs
  <1>5. /\ IsSeq(front \o inactive \o <<session2>>)
        /\ FirstFails(front \o inactive \o <<session2>>, check) =>
              \/ FirstFails(front \o inactive, check)
              \/ AllHold(front \o inactive) /\ FirstFails(<<session2>>, check)
    BY <1>2, <1>4, JoinedSeqs
  <1>6. /\ IsSeq(ChecksAfterLogin(c))
        /\ FirstFails(ChecksAfterLogin(c), check) =>
              \/ check = session1 /\ ~session1.holds
              \/ check = login /\ session1.holds /\ ~login.holds
              \/ session1.holds /\ login.holds /\ FirstFails(inactive, check)
              \/ /\ session1.holds /\ login.holds /\ AllHold(inactive)
                 /\ check = session2 /\ ~session2.holds
    BY <1>1, <1>3, <1>4, <1>5
  <1> QED BY <1>6 DEF session1, login, session2, inactive

\* What the other commands can be refused for, once they have their services.
LEMMA OtherChecks ==
  ASSUME NEW c \in Commands, c.name # "run_resume", NEW check
  PROVE  /\ IsSeq(ChecksAfterLogin(c))
         /\ FirstFails(ChecksAfterLogin(c), check) =>
              \/ c.name = "ls" /\ check = ListCheck(c) /\ ~check.holds
              \/ c.name = "gcs" /\ check = Requires(<<c.endpoint>>, c) /\ ~check.holds
              \/ /\ c.name = "guest" /\ ~check.holds
                 /\ \/ check = Requires(DataAccessTarget(c.collection), c)
                    \/ check = RecentCheck(c) /\ Requires(DataAccessTarget(c.collection), c).holds
              \/ c.name = "timer_transfer" /\ check = NeededCheck(c) /\ ~check.holds
              \/ /\ c.name = "flow_show" /\ ~check.holds
                 /\ check = FlowSession(c.flow, "flows", Injected(c.flow), c)
              \/ /\ c.name = "flow_start" /\ ~check.holds
                 /\ \/ check = Requires(<<c.flow>>, c)
                    \/ /\ Requires(<<c.flow>>, c).holds
                       /\ check = FlowSession(c.flow, c.flow, Injected(c.flow), c)
              \/ /\ c.name = "timer_flow" /\ ~check.holds
                 /\ \/ check = FlowSession(c.flow, "flows", {{}}, c)
                    \/ /\ FlowSession(c.flow, "flows", {{}}, c).holds
                       /\ check = Requires(<<"timers", c.flow>>, c)
              \/ c.name = "timer_resume" /\ FirstFails(InactiveReason(reason.timer, c), check)
  <1>1. CASE c.name = "ls"
    <2>1. ChecksAfterLogin(c) = <<ListCheck(c)>>
      BY <1>1 DEF ChecksAfterLogin, ListChecks, ListCheck
    <2> QED BY <1>1, <2>1, ShortSeqs
  <1>2. CASE c.name = "gcs"
    <2>1. ChecksAfterLogin(c) = <<Requires(<<c.endpoint>>, c)>>
      BY <1>2 DEF ChecksAfterLogin
    <2> QED BY <1>2, <2>1, ShortSeqs
  <1>3. CASE c.name = "guest"
    <2>1. ChecksAfterLogin(c) = <<Requires(DataAccessTarget(c.collection), c), RecentCheck(c)>>
      BY <1>3 DEF ChecksAfterLogin, GuestChecks, RecentCheck
    <2> QED BY <1>3, <2>1, ShortSeqs
  <1>4. CASE c.name = "timer_transfer"
    <2>1. ChecksAfterLogin(c) = <<NeededCheck(c)>>
      BY <1>4 DEF ChecksAfterLogin, TimerTransferChecks, NeededCheck, Needed
    <2> QED BY <1>4, <2>1, ShortSeqs
  <1>5. CASE c.name = "flow_show"
    <2>1. ChecksAfterLogin(c) = <<FlowSession(c.flow, "flows", Injected(c.flow), c)>>
      BY <1>5 DEF ChecksAfterLogin
    <2> QED BY <1>5, <2>1, ShortSeqs
  <1>6. CASE c.name = "flow_start"
    <2>1. ChecksAfterLogin(c) = <<Requires(<<c.flow>>, c),
                                  FlowSession(c.flow, c.flow, Injected(c.flow), c)>>
      BY <1>6 DEF ChecksAfterLogin
    <2> QED BY <1>6, <2>1, ShortSeqs
  <1>7. CASE c.name = "timer_flow"
    <2>1. ChecksAfterLogin(c) = <<FlowSession(c.flow, "flows", {{}}, c),
                                  Requires(<<"timers", c.flow>>, c)>>
      BY <1>7 DEF ChecksAfterLogin
    <2> QED BY <1>7, <2>1, ShortSeqs
  <1>8. CASE c.name = "timer_resume"
    <2>1. ChecksAfterLogin(c) = InactiveReason(reason.timer, c)
      BY <1>8 DEF ChecksAfterLogin
    <2> QED BY <1>8, <2>1, InactiveChecks
  <1> QED BY <1>1, <1>2, <1>3, <1>4, <1>5, <1>6, <1>7, <1>8, CommandParts

LEMMA AllChecks ==
  ASSUME NEW c \in Commands, NEW check, FirstFails(Checks(c), check)
  PROVE  \/ check = ServicesCheck(c) /\ ~check.holds
         \/ ServicesCheck(c).holds /\ FirstFails(ChecksAfterLogin(c), check)
  <1>1. IsSeq(ChecksAfterLogin(c))
    BY OtherChecks, RunResumeChecks
  <1>2. Checks(c) = <<ServicesCheck(c)>> \o ChecksAfterLogin(c)
    BY DEF Checks, ServicesCheck
  <1> QED BY <1>1, <1>2, ShortSeqs, JoinedSeqs

\* Whatever check a command is refused for, it holds once the remedy that it
\* names has been carried out.
LEMMA RefusalRemedied ==
  ASSUME TypeOK, NEW c \in Commands, NEW check, FirstFails(Checks(c), check)
  PROVE  Remedied(check, c)
  <1>1. CASE check = ServicesCheck(c)
    BY <1>1, ServicesRemedied DEF ServicesCheck
  <1> SUFFICES ASSUME FirstFails(ChecksAfterLogin(c), check) PROVE Remedied(check, c)
    BY <1>1, AllChecks
  <1>2. /\ reason.run \in {None} \union Reason(RunScopes)
        /\ reason.timer \in {None} \union Reason(TimerScopes)
    BY DEF TypeOK
  <1>3. CASE c.name = "run_resume"
    <2>1. c.flow \in Flows /\ <<c.flow>> \in Targets
      BY <1>3, CommandParts, DependentPaths
    <2>2. /\ Remedied(FlowSession(c.flow, "flows", InjectedIfFound(c.flow), c), c)
          /\ Remedied(FlowSession(c.flow, c.flow, Injected(c.flow), c), c)
      BY <2>1, SessionRemedied DEF Injected, InjectedIfFound
    <2>3. Remedied(Requires(<<c.flow>>, c), c)
      BY <2>1, RequiresRemedied
    <2>4. FirstFails(InactiveReason(reason.run, c), check) => Remedied(check, c)
      BY <1>2, <1>3, InactiveChecks, ReasonRemedied, DependentPaths
    <2> QED BY <1>3, <2>2, <2>3, <2>4, RunResumeChecks
  <1>4. CASE c.name \in {"ls", "guest"}
    <2>1. c.collection \in Collections
      BY <1>4, CommandParts
    <2>2. c.name = "ls" => Remedied(ListCheck(c), c)
      <3> DEFINE scope == DataAccess(c.collection)
                 holds == RequiresDataAccess(c.collection) => scope \in consents
      <3>1. {scope} \subseteq Dependent(Paths) /\ holds \in BOOLEAN
            /\ ({scope} \subseteq consents => holds)
        BY <2>1, DependentPaths
      <3>2. ListCheck(c) = Check(holds, {Advice("consent", {scope}, FALSE, c)})
        BY DEF ListCheck
      <3> HIDE DEF scope, holds
      <3> QED BY <3>1, <3>2, ScopesRemedied
    <2>3. Remedied(Requires(DataAccessTarget(c.collection), c), c)
      BY <2>1, DataAccessTargets, RequiresRemedied
    <2>4. c.name = "guest" => Remedied(RecentCheck(c), c)
      <3> DEFINE holds == c.collection \in high_assurance
                             => Head(DataAccessTarget(c.collection)) \in recent
      <3>1. holds \in BOOLEAN /\ (Owner[c.collection] \in recent => holds)
        BY <2>1, DataAccessTargets
      <3>2. RecentCheck(c) = Check(holds, LoginFor(DataAccessTarget(c.collection), TRUE, c))
        BY DEF RecentCheck
      <3> HIDE DEF holds
      <3> QED BY <3>1, <3>2, RecentRemedied
    <2> QED BY <1>4, <2>2, <2>3, <2>4, OtherChecks
  <1>5. CASE c.name = "gcs"
    <2>1. <<c.endpoint>> \in Targets
      BY <1>5, CommandParts, DependentPaths
    <2> QED BY <1>5, <2>1, RequiresRemedied, OtherChecks
  <1>6. CASE c.name = "timer_transfer"
    <2>1. Needed(c) \subseteq Dependent(Paths)
      BY <1>6, CommandParts, DependentPaths DEF Needed
    <2> DEFINE missing == Needed(c) \ consents
               holds == Needed(c) \subseteq consents
    <2>2. missing \subseteq Dependent(Paths) /\ holds \in BOOLEAN
          /\ (missing \subseteq consents => holds)
      BY <2>1
    <2>3. NeededCheck(c) = Check(holds, {Advice("consent", missing, FALSE, c)})
      BY DEF NeededCheck
    <2> HIDE DEF missing, holds
    <2>4. Remedied(NeededCheck(c), c)
      BY <2>2, <2>3, ScopesRemedied
    <2> QED BY <1>6, <2>4, OtherChecks
  <1>7. CASE c.name \in {"flow_show", "flow_start", "timer_flow"}
    <2>1. c.flow \in Flows /\ <<c.flow>> \in Targets /\ <<"timers", c.flow>> \in Targets
      BY <1>7, CommandParts, DependentPaths
    <2>2. /\ Remedied(FlowSession(c.flow, "flows", Injected(c.flow), c), c)
          /\ Remedied(FlowSession(c.flow, c.flow, Injected(c.flow), c), c)
          /\ Remedied(FlowSession(c.flow, "flows", {{}}, c), c)
      BY <2>1, SessionRemedied DEF Injected
    <2>3. Remedied(Requires(<<c.flow>>, c), c) /\ Remedied(Requires(<<"timers", c.flow>>, c), c)
      BY <2>1, RequiresRemedied
    <2> QED BY <1>7, <2>2, <2>3, OtherChecks
  <1>8. CASE c.name = "timer_resume"
    <2>1. FirstFails(InactiveReason(reason.timer, c), check)
      BY <1>8, OtherChecks
    <2> QED BY <1>2, <1>8, <2>1, InactiveChecks, ReasonRemedied, DependentPaths
  <1> QED BY <1>3, <1>4, <1>5, <1>6, <1>7, <1>8, CommandParts

-------------------------------------------------------------------------------
(* The steps. *)

LEMMA FirstOfFailed ==
  ASSUME NEW c \in Commands, NEW i \in FailedChecks(c), \A j \in FailedChecks(c) : i <= j
  PROVE  FirstFails(Checks(c), Checks(c)[i])
  <1>1. IsSeq(Checks(c))
    <2>1. IsSeq(ChecksAfterLogin(c))
      BY OtherChecks, RunResumeChecks
    <2>2. Checks(c) = <<ServicesCheck(c)>> \o ChecksAfterLogin(c)
      BY DEF Checks, ServicesCheck
    <2> QED BY <2>1, <2>2, ShortSeqs, JoinedSeqs
  <1>2. DOMAIN Checks(c) \subseteq Nat
    BY <1>1 DEF IsSeq
  <1>3. \A j \in DOMAIN Checks(c) : j < i => Checks(c)[j].holds
    BY <1>2 DEF FailedChecks
  <1> QED BY <1>3 DEF FirstFails, FailedChecks

\* A command runs, or is refused.
LEMMA RunStep ==
  ASSUME TypeOK, NEW c \in Commands, NEW earlier \in Nat, Run(c, earlier)
  PROVE  /\ followed' = FALSE /\ requested' = {} /\ UNCHANGED <<high_assurance, session>>
         /\ \/ cmd' = None /\ advice' = None /\ refusals' = 0
            \/ /\ cmd' = c /\ refusals' = earlier + 1 /\ reason' = reason
               /\ \E check : /\ FirstFails(Checks(c), check)
                             /\ advice' \in check.says /\ advice' \in Remedies
         /\ reason' \in [run : {None} \union Reason(RunScopes),
                         timer : {None} \union Reason(TimerScopes)]
  <1>1. reason \in [run : {None} \union Reason(RunScopes), timer : {None} \union Reason(TimerScopes)]
    BY DEF TypeOK
  <1>2. CASE FailedChecks(c) = {} /\ cmd' = None /\ advice' = None /\ refusals' = 0
             /\ reason' = CASE c.name = "run_resume" -> [reason EXCEPT !.run = None]
                            [] c.name = "timer_resume" -> [reason EXCEPT !.timer = None]
                            [] OTHER -> reason
    BY <1>1, <1>2 DEF Run
  <1>3. CASE /\ \E i \in FailedChecks(c) :
                   /\ \A j \in FailedChecks(c) : i <= j
                   /\ advice' \in Checks(c)[i].says
             /\ cmd' = c /\ refusals' = earlier + 1 /\ UNCHANGED reason
    <2>1. PICK i \in FailedChecks(c) : /\ \A j \in FailedChecks(c) : i <= j
                                       /\ advice' \in Checks(c)[i].says
      BY <1>3
    <2>2. FirstFails(Checks(c), Checks(c)[i])
      BY <2>1, FirstOfFailed
    <2>3. advice' \in Remedies
      BY <2>1, <2>2, RefusalRemedied DEF Remedied
    <2> QED BY <1>1, <1>3, <2>1, <2>2, <2>3 DEF Run
  <1> QED BY <1>2, <1>3 DEF Run

LEMMA RunKeeps ==
  ASSUME RemedyInv, NEW c \in Commands, NEW earlier \in Nat, Run(c, earlier)
  PROVE  RemedyInv'
  <1>1. TypeOK'
    <2>1. /\ followed' = FALSE /\ requested' = {} /\ UNCHANGED <<high_assurance, session>>
          /\ cmd' \in {None} \union Commands /\ advice' \in {None} \union Remedies
          /\ refusals' \in Nat
          /\ reason' \in [run : {None} \union Reason(RunScopes),
                          timer : {None} \union Reason(TimerScopes)]
      <3>1. TypeOK
        BY DEF RemedyInv
      <3>2. /\ followed' = FALSE /\ requested' = {} /\ UNCHANGED <<high_assurance, session>>
            /\ \/ cmd' = None /\ advice' = None /\ refusals' = 0
               \/ cmd' = c /\ advice' \in Remedies /\ refusals' = earlier + 1
            /\ reason' \in [run : {None} \union Reason(RunScopes),
                            timer : {None} \union Reason(TimerScopes)]
        BY <3>1, RunStep
      <3> QED BY <3>2
    <2> QED BY <2>1 DEF RemedyInv, TypeOK, session
  <1> QED BY <1>1, RunStep DEF RemedyInv, Followed, Single, LoginCoversTargets

LEMMA FollowKeeps ==
  ASSUME RemedyInv, Follow
  PROVE  RemedyInv'
  <1>1. /\ advice # None /\ followed' = TRUE /\ advice \in Remedies
        /\ requested' = IF advice.kind = "login" THEN Range(advice.targets) ELSE {}
        /\ UNCHANGED <<high_assurance, reason, cmd, advice, refusals>>
    BY DEF Follow, RemedyInv, TypeOK
  <1>2. Carried(advice)' /\ SessionTypes'
    BY FollowLeaves DEF RemedyInv
  <1>3. requested' \subseteq Targets
    <2>1. advice.kind = "login" =>
            advice.targets = <<>> \/ \E t \in Targets : advice.targets = <<t>>
      BY <1>1 DEF Remedies
    <2> QED BY <1>1, <2>1, Tuples
  <1>4. TypeOK'
    BY <1>1, <1>2, <1>3 DEF RemedyInv, TypeOK, SessionTypes, Servers
  <1>5. LoginCoversTargets'
    BY <1>1, <1>2 DEF Carried, LoginCoversTargets
  <1>6. Single'
    <2>1. advice.kind = "login" =>
            advice.targets = <<>> \/ \E t \in Targets : advice.targets = <<t>>
      BY <1>1 DEF Remedies
    <2> QED BY <1>1, <2>1, Tuples DEF Single
  <1> QED BY <1>1, <1>2, <1>4, <1>5, <1>6 DEF RemedyInv, Followed

LEMMA LoginKeeps ==
  ASSUME RemedyInv, NEW targets \in BoundedSeq(Targets, MaxTargets), NEW force \in BOOLEAN,
         Login(targets, force)
  PROVE  RemedyInv'
  <1>1. targets \in Seq(Targets)
    BY BoundsAssumption, SeqDef DEF BoundedSeq, SeqOf
  <1>2. /\ LoginCommand(targets, force) /\ requested' = Range(targets) /\ reason' = reason
        /\ cmd' = None /\ advice' = None /\ followed' = FALSE /\ refusals' = 0
        /\ high_assurance' = high_assurance
    BY DEF Login, Elsewhere
  <1>3. SessionTypes'
    BY <1>1, <1>2, LoginTypes DEF RemedyInv, TypeOK, SessionTypes, Servers
  <1>4. Range(targets) \subseteq Targets
    BY <1>1 DEF Range
  <1>5. TypeOK'
    BY <1>2, <1>3, <1>4 DEF RemedyInv, TypeOK, SessionTypes, Servers
  <1>6. ASSUME OneTargetPerServer(requested)' PROVE LoginCoversTargets'
    <2>1. OneTargetPerServer(Range(targets))
      BY <1>2, <1>6 DEF OneTargetPerServer
    <2> QED BY <1>1, <1>2, <2>1, LoginLeaves DEF LoginCoversTargets
  <1>7. Single'
    <2> SUFFICES ASSUME MaxTargets <= 1
                 PROVE  Range(targets) = {} \/ \E t \in Targets : Range(targets) = {t}
      BY <1>2 DEF Single
    <2>1. PICK m \in 0..MaxTargets : targets \in [1..m -> Targets]
      BY DEF BoundedSeq, SeqOf
    <2>2. CASE m = 0
      BY <2>1, <2>2 DEF Range
    <2>3. CASE m = 1
      <3>1. Range(targets) = {targets[1]} /\ targets[1] \in Targets
        BY <2>1, <2>3 DEF Range
      <3> QED BY <3>1
    <2> QED BY <2>1, <2>2, <2>3, BoundsAssumption
  <1> QED BY <1>2, <1>5, <1>6, <1>7 DEF RemedyInv, Followed

\* Everything else that happens ends the exchange with the user.
LEMMA OthersKeep ==
  ASSUME RemedyInv,
         \/ \E delete_client \in BOOLEAN : Logout(delete_client)
         \/ SessionExpires
         \/ \E p \in Paths : Withdraw(p)
         \/ \E rs \in Revocable : LoseTokens(rs)
         \/ Pause
  PROVE  RemedyInv' /\ refusals' = 0
  <1>1. /\ requested' = {} /\ cmd' = None /\ advice' = None /\ followed' = FALSE /\ refusals' = 0
        /\ high_assurance' = high_assurance
    BY DEF Logout, SessionExpires, Withdraw, LoseTokens, Pause, Elsewhere
  <1>2. SessionTypes
    BY DEF RemedyInv, TypeOK, SessionTypes, Servers
  <1>3. SessionTypes'
    <2>1. CASE \E delete_client \in BOOLEAN : Logout(delete_client)
      BY <1>2, <2>1 DEF SessionTypes, Logout
    <2>2. CASE SessionExpires
      BY <1>2, <2>2 DEF SessionTypes, SessionExpires
    <2>3. CASE \E p \in Paths : Withdraw(p)
      BY <1>2, <2>3 DEF SessionTypes, Withdraw
    <2>4. CASE \E rs \in Revocable : LoseTokens(rs)
      BY <1>2, <2>4 DEF SessionTypes, LoseTokens
    <2>5. CASE Pause
      BY <1>2, <2>5 DEF SessionTypes, Pause, session
    <2> QED BY <2>1, <2>2, <2>3, <2>4, <2>5
  <1>4. reason' \in [run : {None} \union Reason(RunScopes),
                     timer : {None} \union Reason(TimerScopes)]
    <2>1. CASE reason' = reason
      BY <2>1 DEF RemedyInv, TypeOK
    <2>2. CASE Pause
      BY <2>2 DEF RemedyInv, TypeOK, Pause
    <2> QED BY <2>1, <2>2 DEF Logout, SessionExpires, Withdraw, LoseTokens
  <1>5. TypeOK'
    BY <1>1, <1>3, <1>4 DEF RemedyInv, TypeOK, SessionTypes, Servers
  <1> QED BY <1>1, <1>5 DEF RemedyInv, Followed, Single, LoginCoversTargets

LEMMA RemedyInit == Init => RemedyInv
  <1> SUFFICES ASSUME Init PROVE RemedyInv
    OBVIOUS
  <1>1. TypeOK
    BY DEF Init, TypeOK
  <1> QED BY <1>1 DEF Init, RemedyInv, Followed, Single, LoginCoversTargets

LEMMA RemedyNext == RemedyInv /\ [Next]_vars => RemedyInv'
  <1> SUFFICES ASSUME RemedyInv, [Next]_vars PROVE RemedyInv'
    OBVIOUS
  <1>1. CASE UNCHANGED vars
    BY <1>1 DEF vars, session, RemedyInv, TypeOK, Followed, Single, Carried, OneTargetPerServer,
                LoginCoversTargets
  <1>2. CASE \E c \in Commands : Invoke(c)
    BY <1>2, RunKeeps DEF Invoke
  <1>3. CASE Retry
    <2>1. advice.then \in Commands /\ refusals \in Nat
      BY <1>3 DEF Retry, RemedyInv, TypeOK, Followed, Remedies
    <2> QED BY <1>3, <2>1, RunKeeps DEF Retry
  <1> QED BY <1>1, <1>2, <1>3, FollowKeeps, LoginKeeps, OthersKeep DEF Next

LEMMA RemedyInvariant == Spec => []RemedyInv
  BY RemedyInit, RemedyNext, PTL DEF Spec

\* Whatever commands are run and whatever logins, logouts and expiries come
\* between them, every variable keeps its type: what a refusal names is always a
\* command line that exists, with targets that exist, and a session never
\* outlives the tokens it came with.
THEOREM TypeCorrect == Spec => []TypeOK
  BY RemedyInvariant, PTL DEF RemedyInv

\* A login that reports success leaves every target usable as long as no two of
\* its targets share a resource server, however many there are.  Where two do,
\* the later one replaces the earlier one in the requirements: run login_targets.
THEOREM TargetsTheorem == Spec => [](OneTargetPerServer(requested) => LoginCoversTargets)
  BY RemedyInvariant, PTL DEF RemedyInv

\* With at most one --gcs, --flow or --timer option nothing is ever left out.
THEOREM CoversTheorem == ASSUME MaxTargets <= 1 PROVE Spec => []LoginCoversTargets
  <1>1. RemedyInv => LoginCoversTargets
    BY DEF RemedyInv, Single, OneTargetPerServer, LoginCoversTargets
  <1> QED BY <1>1, RemedyInvariant, PTL

\* Doing what a refusal says changes something: when the command that the user
\* was told to run again is refused once more, it is not with the same words.
THEOREM RemedyTheorem == Spec => RemedyHelps
  <1> DEFINE A == refusals > 0 /\ refusals' > refusals => advice' # advice
  <1>1. RemedyInv /\ [Next]_vars => [A]_vars
    <2> SUFFICES ASSUME RemedyInv, Next, refusals > 0, refusals' > refusals
                 PROVE  advice' # advice
      OBVIOUS
    <2>1. refusals \in Nat
      BY DEF RemedyInv, TypeOK
    <2>2. CASE \E c \in Commands : Invoke(c)
      <3>1. TypeOK /\ 0 \in Nat /\ \E c \in Commands : Run(c, 0)
        BY <2>2 DEF Invoke, RemedyInv
      <3>2. refusals' = 0 \/ refusals' = 0 + 1
        BY <3>1, RunStep
      <3> QED BY <2>1, <3>2
    <2>3. CASE Retry
      <3> DEFINE c == advice.then
      <3>1. c \in Commands /\ Carried(advice) /\ Run(c, refusals)
        <4>1. /\ followed /\ Run(advice.then, refusals)
              /\ advice # None /\ advice \in {None} \union Remedies /\ Carried(advice)
          BY <2>3 DEF Retry, RemedyInv, TypeOK, Followed
        <4>2. \A a \in Remedies : a.then \in Commands
          BY DEF Remedies
        <4> QED BY <4>1, <4>2
      <3> HIDE DEF c
      <3>2. PICK check : FirstFails(Checks(c), check) /\ advice' \in check.says
        <4>1. TypeOK /\ refusals' # 0 /\ refusals \in Nat
          BY <2>1 DEF RemedyInv
        <4> QED BY <3>1, <4>1, RunStep
      <3>3. Remedied(check, c) /\ ~check.holds
        BY <3>1, <3>2, RefusalRemedied DEF RemedyInv, FirstFails
      <3> QED BY <3>1, <3>2, <3>3 DEF Remedied, c
    <2>4. refusals' \in {0, refusals}
            \/ (\E c \in Commands : Invoke(c)) \/ Retry
      BY OthersKeep DEF Next, Follow, Login, Elsewhere
    <2> QED BY <2>1, <2>2, <2>3, <2>4
  <1> QED BY <1>1, RemedyInvariant, PTL DEF Spec, RemedyHelps

-------------------------------------------------------------------------------
(* How often a command can be refused.  Effort counts the refusals that are     *)
(* still possible, those that a remedy for another one will cause included: a   *)
(* login for a flow, and a consent to one of its scopes, drop the session that  *)
(* the tokens of the flow came with.                                            *)

LacksServices(c) == ~(ServicesOf(c) \subseteq tokens)
LacksLogin(t) == Head(t) \notin tokens \/ (Len(t) > 1 /\ t \notin consents)
LacksPolicy(c, rs) == c.flow \in high_assurance /\ rs \notin policy
LacksDataAccess(c) == RequiresDataAccess(c.collection) /\ DataAccess(c.collection) \notin consents
LacksRecent(c) == c.collection \in high_assurance /\ Owner[c.collection] \notin recent
LacksNeeded(c) == ~(Needed(c) \subseteq consents)
LacksScopes(r) == ~(r.scopes \subseteq consents)
IsInactive(r, c) == ~c.skip /\ r # None

One(condition) == IF condition THEN 1 ELSE 0
Careful(c) == One(c.flow \in high_assurance)

FlowsEffort(c) == IF LacksServices(c) THEN 1 + Careful(c) ELSE One(LacksPolicy(c, "flows"))
ReasonEffort(r, c) == IF IsInactive(r, c) THEN One(LacksScopes(r)) + One(r.policy) ELSE 0
ResumeEffort(r, c) ==
    IF LacksLogin(<<c.flow>>) THEN 1 + Careful(c) + Careful(c)
    ELSE IF IsInactive(r, c) /\ LacksScopes(r) /\ ~r.policy THEN Careful(c)
    ELSE One(LacksPolicy(c, c.flow))

Effort(c) ==
    CASE c.name = "ls" -> One(LacksServices(c)) + One(LacksDataAccess(c))
      [] c.name = "gcs" -> One(LacksServices(c)) + One(LacksLogin(<<c.endpoint>>))
      [] c.name = "guest" ->
            One(LacksServices(c)) + One(LacksLogin(DataAccessTarget(c.collection)))
            + One(LacksRecent(c))
      [] c.name = "timer_transfer" -> One(LacksServices(c)) + One(LacksNeeded(c))
      [] c.name = "flow_show" -> FlowsEffort(c)
      [] c.name = "flow_start" ->
            One(LacksServices(c))
            + IF LacksLogin(<<c.flow>>) THEN 1 + Careful(c) ELSE One(LacksPolicy(c, c.flow))
      [] c.name = "timer_flow" ->
            FlowsEffort(c) + IF LacksLogin(<<"timers", c.flow>>) THEN 1 + Careful(c) ELSE 0
      [] c.name = "run_resume" ->
            FlowsEffort(c) + ResumeEffort(reason.run, c) + ReasonEffort(reason.run, c)
      [] c.name = "timer_resume" -> One(LacksServices(c)) + ReasonEffort(reason.timer, c)

\* Why an inactive run or timer is not resumed.
ReasonBecause(r, a, c) ==
    /\ IsInactive(r, c)
    /\ a.kind = IF r.policy THEN "update" ELSE "consent"
    /\ a.targets = r.scopes
    /\ \/ LacksScopes(r) /\ a.then = c
       \/ ~LacksScopes(r) /\ r.policy /\ a.then = [c EXCEPT !.skip = TRUE]

\* Why command c was refused with a.
Because(a, c) ==
    IF LacksServices(c) THEN a.kind = "login" /\ a.targets = <<>> /\ a.then = c
    ELSE
    \/ /\ a.then = c
       /\ \/ /\ c.name = "ls" /\ LacksDataAccess(c)
             /\ a.kind = "consent" /\ a.targets = {DataAccess(c.collection)}
          \/ /\ c.name = "gcs" /\ LacksLogin(<<c.endpoint>>)
             /\ a.kind = "login" /\ a.targets = <<<<c.endpoint>>>>
          \/ /\ c.name = "guest"
             /\ a.kind = "login" /\ a.targets = <<DataAccessTarget(c.collection)>>
             /\ \/ LacksLogin(DataAccessTarget(c.collection))
                \/ LacksRecent(c) /\ a.force
          \/ /\ c.name = "timer_transfer" /\ LacksNeeded(c)
             /\ a.kind = "consent" /\ a.targets = Needed(c) \ consents
          \/ /\ c.name \in {"flow_show", "timer_flow", "run_resume"} /\ LacksPolicy(c, "flows")
             /\ a.kind = "update"
          \/ /\ c.name \in {"flow_start", "run_resume"} /\ LacksLogin(<<c.flow>>)
             /\ c.name = "run_resume" => ~LacksPolicy(c, "flows")
             /\ a.kind = "login" /\ a.targets = <<<<c.flow>>>>
          \/ /\ c.name = "timer_flow" /\ LacksLogin(<<"timers", c.flow>>)
             /\ ~LacksPolicy(c, "flows")
             /\ a.kind = "login" /\ a.targets = <<<<"timers", c.flow>>>>
          \/ /\ c.name \in {"flow_start", "run_resume"} /\ LacksPolicy(c, c.flow)
             /\ ~LacksLogin(<<c.flow>>)
             /\ c.name = "run_resume" => /\ ~LacksPolicy(c, "flows")
                                         /\ IsInactive(reason.run, c) => /\ ~LacksScopes(reason.run)
                                                                        /\ ~reason.run.policy
             /\ a.kind = "update" /\ a.targets = {<<c.flow>>}
    \/ /\ c.name = "run_resume" /\ ~LacksPolicy(c, "flows") /\ ~LacksLogin(<<c.flow>>)
       /\ ReasonBecause(reason.run, a, c)
    \/ c.name = "timer_resume" /\ ReasonBecause(reason.timer, a, c)

\* A refusal leaves less to do than there was before it.
Counted ==
    \/ refusals = 0 /\ advice = None
    \/ ~followed /\ cmd \in Commands /\ Because(advice, cmd) /\ refusals + Effort(cmd) <= 8
    \/ followed /\ refusals + Effort(advice.then) <= 7


LEMMA RequiresMeans ==
  ASSUME NEW c, NEW t \in Targets
  PROVE  /\ Requires(t, c).holds <=> ~LacksLogin(t)
         /\ \A a \in Requires(t, c).says :
               a.kind = "login" /\ a.targets = <<t>> /\ a.then = c /\ a.force = FALSE
  <1>1. HasLogin(Head(t), Requirements(<<t>>)) <=> ~LacksLogin(t)
    BY OneRequirement DEF HasLogin, LacksLogin
  <1> QED BY <1>1 DEF Requires, Check, LoginFor, Advice

LEMMA SessionMeans ==
  ASSUME NEW c, NEW rs, NEW injected
  PROVE  /\ FlowSession(c.flow, rs, injected, c).holds <=> ~LacksPolicy(c, rs)
         /\ \A a \in FlowSession(c.flow, rs, injected, c).says :
               a.kind = "update" /\ a.targets \in injected /\ a.then = c
  <1> DEFINE check == FlowSession(c.flow, rs, injected, c)
  <1>1. check.holds <=> ~LacksPolicy(c, rs)
    BY DEF FlowSession, Check, LacksPolicy
  <1>2. check.says = {Advice("update", paths, FALSE, c) : paths \in injected}
    BY DEF FlowSession, Check
  <1> HIDE DEF check
  <1>3. ASSUME NEW a \in check.says
        PROVE  a.kind = "update" /\ a.targets \in injected /\ a.then = c
    <2>1. PICK paths \in injected : a = Advice("update", paths, FALSE, c)
      BY <1>2, <1>3
    <2> QED BY <2>1 DEF Advice
  <1> QED BY <1>1, <1>3 DEF check

LEMMA ReasonMeans ==
  ASSUME NEW c, NEW S, NEW r \in {None} \union Reason(S), NEW check, NEW a \in check.says,
         FirstFails(InactiveReason(r, c), check)
  PROVE  ReasonBecause(r, a, c)
  <1>1. /\ IsInactive(r, c)
        /\ \/ check = ReasonScopes(r, c) /\ ~ReasonScopes(r, c).holds
           \/ /\ check = ReasonPolicy(r, c) /\ ReasonScopes(r, c).holds
              /\ ~ReasonPolicy(r, c).holds
    BY InactiveChecks DEF IsInactive
  <1>2. ASSUME NEW d
        PROVE  LET says == GareAdvice(r, d)
               IN  \A b \in says : /\ b.kind = IF r.policy THEN "update" ELSE "consent"
                                   /\ b.targets = r.scopes /\ b.then = d
    <2> DEFINE kind == IF r.policy THEN "update" ELSE "consent"
               words == Advice(kind, r.scopes, FALSE, d)
    <2>1. GareAdvice(r, d) = {words}
      BY DEF GareAdvice
    <2> HIDE DEF kind
    <2>2. words.kind = kind /\ words.targets = r.scopes /\ words.then = d
      BY DEF Advice
    <2> QED BY <2>1, <2>2 DEF kind
  <1>3. /\ ReasonScopes(r, c).holds <=> ~LacksScopes(r)
        /\ ReasonScopes(r, c).says = GareAdvice(r, c)
    BY DEF ReasonScopes, LacksScopes, Check
  <1>4. /\ ReasonPolicy(r, c).holds <=> ~r.policy
        /\ ReasonPolicy(r, c).says = GareAdvice(r, [c EXCEPT !.skip = TRUE])
    BY DEF ReasonPolicy, Check
  <1>5. CASE check = ReasonScopes(r, c) /\ ~ReasonScopes(r, c).holds
    BY <1>1, <1>2, <1>3, <1>5 DEF ReasonBecause
  <1>6. CASE check = ReasonPolicy(r, c) /\ ReasonScopes(r, c).holds /\ ~ReasonPolicy(r, c).holds
    BY <1>1, <1>2, <1>3, <1>4, <1>6 DEF ReasonBecause
  <1> QED BY <1>1, <1>5, <1>6

LEMMA ReasonHolds ==
  ASSUME NEW c, NEW r, AllHold(InactiveReason(r, c)), IsInactive(r, c)
  PROVE  ~LacksScopes(r) /\ ~r.policy
  <1>1. ReasonScopes(r, c).holds /\ ReasonPolicy(r, c).holds
    BY InactiveChecks DEF IsInactive
  <1> QED BY <1>1 DEF ReasonScopes, ReasonPolicy, LacksScopes, Check

LEMMA WhyRefused ==
  ASSUME TypeOK, NEW c \in Commands, NEW check, FirstFails(Checks(c), check), NEW a \in check.says
  PROVE  Because(a, c)
  <1>1. ServicesCheck(c).holds <=> ~LacksServices(c)
    BY DEF ServicesCheck, LacksServices, Check
  <1>2. CASE check = ServicesCheck(c) /\ ~check.holds
    BY <1>1, <1>2 DEF ServicesCheck, Check, Advice, Because
  <1> SUFFICES ASSUME ~LacksServices(c), FirstFails(ChecksAfterLogin(c), check)
               PROVE  Because(a, c)
    BY <1>1, <1>2, AllChecks
  <1>3. /\ reason.run \in {None} \union Reason(RunScopes)
        /\ reason.timer \in {None} \union Reason(TimerScopes)
    BY DEF TypeOK
  <1>4. CASE c.name = "run_resume"
    <2> DEFINE session1 == FlowSession(c.flow, "flows", InjectedIfFound(c.flow), c)
               login == Requires(<<c.flow>>, c)
               session2 == FlowSession(c.flow, c.flow, Injected(c.flow), c)
    <2>1. <<c.flow>> \in Targets
      BY <1>4, CommandParts, DependentPaths
    <2>2. /\ session1.holds <=> ~LacksPolicy(c, "flows")
          /\ \A b \in session1.says :
                b.kind = "update" /\ b.targets \in InjectedIfFound(c.flow) /\ b.then = c
      BY SessionMeans
    <2>3. /\ session2.holds <=> ~LacksPolicy(c, c.flow)
          /\ \A b \in session2.says : b.kind = "update" /\ b.targets = {<<c.flow>>} /\ b.then = c
      <3>1. /\ session2.holds <=> ~LacksPolicy(c, c.flow)
            /\ \A b \in session2.says :
                  b.kind = "update" /\ b.targets \in Injected(c.flow) /\ b.then = c
        BY SessionMeans
      <3>2. \A targets \in Injected(c.flow) : targets = {<<c.flow>>}
        BY DEF Injected
      <3> QED BY <3>1, <3>2
    <2>4. /\ login.holds <=> ~LacksLogin(<<c.flow>>)
          /\ \A b \in login.says : b.kind = "login" /\ b.targets = <<<<c.flow>>>> /\ b.then = c
      BY <2>1, RequiresMeans
    <2>5. \/ check = session1 /\ ~session1.holds
          \/ check = login /\ session1.holds /\ ~login.holds
          \/ session1.holds /\ login.holds /\ FirstFails(InactiveReason(reason.run, c), check)
          \/ /\ session1.holds /\ login.holds /\ AllHold(InactiveReason(reason.run, c))
             /\ check = session2 /\ ~session2.holds
      BY <1>4, RunResumeChecks
    <2> HIDE DEF session1, session2, login
    <2>6. CASE check = session1 /\ ~session1.holds
      BY <1>4, <2>2, <2>6 DEF Because
    <2>7. CASE check = login /\ session1.holds /\ ~login.holds
      BY <1>4, <2>2, <2>4, <2>7 DEF Because
    <2>8. CASE session1.holds /\ login.holds /\ FirstFails(InactiveReason(reason.run, c), check)
      <3>1. ReasonBecause(reason.run, a, c)
        BY <1>3, <2>8, ReasonMeans
      <3> QED BY <1>4, <2>2, <2>4, <2>8, <3>1 DEF Because
    <2>9. CASE /\ session1.holds /\ login.holds /\ AllHold(InactiveReason(reason.run, c))
               /\ check = session2 /\ ~session2.holds
      <3>1. IsInactive(reason.run, c) => ~LacksScopes(reason.run) /\ ~reason.run.policy
        BY <2>9, ReasonHolds
      <3> QED BY <1>4, <2>2, <2>3, <2>4, <2>9, <3>1 DEF Because
    <2> QED BY <2>5, <2>6, <2>7, <2>8, <2>9
  <1>5. CASE c.name = "ls"
    <2>1. check = ListCheck(c) /\ ~check.holds
      BY <1>5, OtherChecks
    <2> DEFINE words == Advice("consent", {DataAccess(c.collection)}, FALSE, c)
    <2>2. (ListCheck(c).holds <=> ~LacksDataAccess(c)) /\ ListCheck(c).says = {words}
      BY DEF ListCheck, Check, LacksDataAccess
    <2>3. /\ words.kind = "consent" /\ words.targets = {DataAccess(c.collection)}
          /\ words.then = c
      BY DEF Advice
    <2> HIDE DEF words
    <2> QED BY <1>5, <2>1, <2>2, <2>3 DEF Because
  <1>6. CASE c.name = "gcs"
    <2>1. check = Requires(<<c.endpoint>>, c) /\ ~check.holds
      BY <1>6, OtherChecks
    <2>2. <<c.endpoint>> \in Targets
      BY <1>6, CommandParts, DependentPaths
    <2>3. LacksLogin(<<c.endpoint>>) /\ a.kind = "login" /\ a.targets = <<<<c.endpoint>>>>
          /\ a.then = c
      BY <2>1, <2>2, RequiresMeans
    <2> QED BY <1>6, <2>3 DEF Because
  <1>7. CASE c.name = "guest"
    <2> DEFINE t == DataAccessTarget(c.collection)
    <2>1. t \in Targets /\ Head(t) = Owner[c.collection]
      BY <1>7, CommandParts, DataAccessTargets
    <2>2. ~check.holds /\ (check = Requires(t, c) \/ check = RecentCheck(c))
      BY <1>7, OtherChecks
    <2>3. RecentCheck(c).holds <=> ~LacksRecent(c)
      BY <2>1 DEF RecentCheck, LacksRecent, Check
    <2>4. \A b \in RecentCheck(c).says :
             b.kind = "login" /\ b.targets = <<t>> /\ b.then = c /\ b.force = TRUE
      BY DEF RecentCheck, Check, LoginFor, Advice
    <2>5. /\ Requires(t, c).holds <=> ~LacksLogin(t)
          /\ \A b \in Requires(t, c).says : b.kind = "login" /\ b.targets = <<t>> /\ b.then = c
      BY <2>1, RequiresMeans
    <2> QED BY <1>7, <2>2, <2>3, <2>4, <2>5 DEF Because
  <1>8. CASE c.name = "timer_transfer"
    <2>1. check = NeededCheck(c) /\ ~check.holds
      BY <1>8, OtherChecks
    <2> DEFINE words == Advice("consent", Needed(c) \ consents, FALSE, c)
    <2>2. (NeededCheck(c).holds <=> ~LacksNeeded(c)) /\ NeededCheck(c).says = {words}
      BY DEF NeededCheck, Check, LacksNeeded
    <2>3. words.kind = "consent" /\ words.targets = Needed(c) \ consents /\ words.then = c
      BY DEF Advice
    <2> HIDE DEF words
    <2> QED BY <1>8, <2>1, <2>2, <2>3 DEF Because
  <1>9. CASE c.name = "flow_show"
    <2>1. check = FlowSession(c.flow, "flows", Injected(c.flow), c) /\ ~check.holds
      BY <1>9, OtherChecks
    <2> DEFINE session1 == FlowSession(c.flow, "flows", Injected(c.flow), c)
    <2>2. /\ session1.holds <=> ~LacksPolicy(c, "flows")
          /\ \A b \in session1.says :
                b.kind = "update" /\ b.targets \in Injected(c.flow) /\ b.then = c
      BY SessionMeans
    <2> HIDE DEF session1
    <2> QED BY <1>9, <2>1, <2>2 DEF Because, session1
  <1>10. CASE c.name = "flow_start"
    <2>1. /\ ~check.holds
          /\ \/ check = Requires(<<c.flow>>, c)
             \/ /\ Requires(<<c.flow>>, c).holds
                /\ check = FlowSession(c.flow, c.flow, Injected(c.flow), c)
      BY <1>10, OtherChecks
    <2>2. <<c.flow>> \in Targets
      BY <1>10, CommandParts, DependentPaths
    <2>3. /\ Requires(<<c.flow>>, c).holds <=> ~LacksLogin(<<c.flow>>)
          /\ \A b \in Requires(<<c.flow>>, c).says :
                b.kind = "login" /\ b.targets = <<<<c.flow>>>> /\ b.then = c
      BY <2>2, RequiresMeans
    <2> DEFINE session2 == FlowSession(c.flow, c.flow, Injected(c.flow), c)
    <2>4. /\ session2.holds <=> ~LacksPolicy(c, c.flow)
          /\ \A b \in session2.says :
                b.kind = "update" /\ b.targets \in Injected(c.flow) /\ b.then = c
      BY SessionMeans
    <2>5. \A targets \in Injected(c.flow) : targets = {<<c.flow>>}
      BY DEF Injected
    <2> HIDE DEF session2
    <2>6. CASE check = Requires(<<c.flow>>, c)
      BY <1>10, <2>1, <2>3, <2>6 DEF Because
    <2>7. CASE Requires(<<c.flow>>, c).holds /\ check = session2
      BY <1>10, <2>1, <2>3, <2>4, <2>5, <2>7 DEF Because
    <2> QED BY <2>1, <2>6, <2>7 DEF session2
  <1>11. CASE c.name = "timer_flow"
    <2>1. /\ ~check.holds
          /\ \/ check = FlowSession(c.flow, "flows", {{}}, c)
             \/ /\ FlowSession(c.flow, "flows", {{}}, c).holds
                /\ check = Requires(<<"timers", c.flow>>, c)
      BY <1>11, OtherChecks
    <2>2. <<"timers", c.flow>> \in Targets
      BY <1>11, CommandParts, DependentPaths
    <2>3. LET t == <<"timers", c.flow>>
          IN  /\ Requires(t, c).holds <=> ~LacksLogin(t)
              /\ \A b \in Requires(t, c).says : b.kind = "login" /\ b.targets = <<t>> /\ b.then = c
      BY <2>2, RequiresMeans
    <2> DEFINE session1 == FlowSession(c.flow, "flows", {{}}, c)
    <2>4. /\ session1.holds <=> ~LacksPolicy(c, "flows")
          /\ \A b \in session1.says : b.kind = "update" /\ b.targets \in {{}} /\ b.then = c
      BY SessionMeans
    <2> HIDE DEF session1
    <2>5. CASE check = session1
      BY <1>11, <2>1, <2>4, <2>5 DEF Because
    <2>6. CASE session1.holds /\ check = Requires(<<"timers", c.flow>>, c)
      BY <1>11, <2>1, <2>3, <2>4, <2>6 DEF Because
    <2> QED BY <2>1, <2>5, <2>6 DEF session1
  <1>12. CASE c.name = "timer_resume"
    <2>1. ReasonBecause(reason.timer, a, c)
      BY <1>3, <1>12, OtherChecks, ReasonMeans
    <2> QED BY <1>12, <2>1 DEF Because
  <1> QED BY <1>4, <1>5, <1>6, <1>7, <1>8, <1>9, <1>10, <1>11, <1>12, CommandParts


LEMMA EffortBounds ==
  ASSUME NEW c \in Commands
  PROVE  Effort(c) \in 0..7
  <1>1. CASE c.name \in {"ls", "gcs", "guest", "timer_transfer", "timer_resume"}
    BY <1>1 DEF Effort, ReasonEffort, One
  <1>2. CASE c.name \in {"flow_show", "flow_start", "timer_flow"}
    BY <1>2 DEF Effort, FlowsEffort, Careful, One
  <1>3. CASE c.name = "run_resume"
    BY <1>3 DEF Effort, FlowsEffort, ResumeEffort, ReasonEffort, Careful, One
  <1> QED BY <1>1, <1>2, <1>3, CommandParts

\* Before a step and after it.
LEMMA EffortIsNumber ==
  ASSUME NEW c \in Commands
  PROVE  Effort(c) \in Nat /\ Effort(c)' \in Nat
  <1>1. Effort(c) \in Nat
    BY EffortBounds
  <1>2. CASE c.name = "ls"
    BY <1>1, <1>2 DEF Effort, One
  <1>3. CASE c.name = "gcs"
    BY <1>1, <1>3 DEF Effort, One
  <1>4. CASE c.name = "guest"
    BY <1>1, <1>4 DEF Effort, One
  <1>5. CASE c.name = "timer_transfer"
    BY <1>1, <1>5 DEF Effort, One
  <1>6. CASE c.name = "flow_show"
    BY <1>1, <1>6 DEF Effort, FlowsEffort, Careful, One
  <1>7. CASE c.name = "flow_start"
    BY <1>1, <1>7 DEF Effort, FlowsEffort, Careful, One
  <1>8. CASE c.name = "timer_flow"
    BY <1>1, <1>8 DEF Effort, FlowsEffort, Careful, One
  <1>9. CASE c.name = "run_resume"
    BY <1>1, <1>9 DEF Effort, FlowsEffort, ResumeEffort, ReasonEffort, Careful, One
  <1>10. CASE c.name = "timer_resume"
    BY <1>1, <1>10 DEF Effort, ReasonEffort, One
  <1> QED BY <1>1, <1>2, <1>3, <1>4, <1>5, <1>6, <1>7, <1>8, <1>9, <1>10, CommandParts

\* A refusal is counted.
LEMMA RefusalCounted ==
  ASSUME NEW c \in Commands, NEW a, Because(a, c)
  PROVE  Effort(c) >= 1
  <1>1. CASE LacksServices(c)
    <2>1. CASE c.name \in {"ls", "gcs", "guest", "timer_transfer", "timer_resume"}
      BY <1>1, <2>1 DEF Effort, ReasonEffort, One
    <2>2. CASE c.name \in {"flow_show", "flow_start", "timer_flow"}
      BY <1>1, <2>2 DEF Effort, FlowsEffort, Careful, One
    <2>3. CASE c.name = "run_resume"
      BY <1>1, <2>3 DEF Effort, FlowsEffort, ResumeEffort, ReasonEffort, Careful, One
    <2> QED BY <2>1, <2>2, <2>3, CommandParts
  <1>2. CASE ~LacksServices(c)
    <2>1. CASE c.name \in {"ls", "gcs", "guest", "timer_transfer"}
      BY <1>2, <2>1 DEF Because, Effort, One
    <2>2. CASE c.name \in {"flow_show", "flow_start", "timer_flow"}
      BY <1>2, <2>2 DEF Because, Effort, FlowsEffort, Careful, One
    <2>3. CASE c.name = "run_resume"
      BY <1>2, <2>3 DEF Because, ReasonBecause, Effort, FlowsEffort, ResumeEffort, ReasonEffort,
                        Careful, One
    <2>4. CASE c.name = "timer_resume"
      BY <1>2, <2>4 DEF Because, ReasonBecause, Effort, ReasonEffort, One
    <2> QED BY <2>1, <2>2, <2>3, <2>4, CommandParts
  <1> QED BY <1>1, <1>2

\* What carrying out a remedy does to what was there before.
Effects(a) ==
    /\ high_assurance' = high_assurance /\ reason' = reason
    /\ consents \subseteq consents' /\ tokens \subseteq tokens' /\ recent \subseteq recent'
    /\ Carried(a)'
    /\ a.kind = "login" => policy \ (Services \union Roots(Range(a.targets))) \subseteq policy'
    /\ a.kind = "consent" => policy \ (Roots(a.targets) \union {"auth"}) \subseteq policy'
    /\ a.kind = "update" => policy \subseteq policy'

LEMMA LoggedInEffects ==
  ASSUME NEW paths, NEW with_policy \in BOOLEAN, LoggedIn(paths, with_policy)
  PROVE  /\ consents \subseteq consents' /\ tokens \subseteq tokens' /\ recent \subseteq recent'
         /\ policy \ Roots(paths) \subseteq policy'
         /\ with_policy => policy \subseteq policy'
  BY DEF LoggedIn

LEMMA FollowEffects ==
  ASSUME TypeOK, Follow, NEW a, a = advice
  PROVE  Effects(a)
  <1>1. a \in Remedies /\ advice' = a /\ high_assurance' = high_assurance /\ reason' = reason
    BY DEF Follow, TypeOK
  <1>2. Carried(a)'
    BY <1>1, FollowLeaves DEF Carried
  <1>3. CASE a.kind = "login"
    <2> DEFINE required == UNION Range(Requirements(a.targets))
    <2>1. /\ LoginCommand(a.targets, a.force)
          /\ a.targets = <<>> \/ \E t \in Targets : a.targets = <<t>>
      BY <1>1, <1>3 DEF Follow, Remedies
    <2>2. required \subseteq Range(a.targets)
      BY <2>1, RequiredTargets, EmptySeq, OneRequirement
    <2>3. CASE UNCHANGED session
      BY <1>1, <1>2, <1>3, <2>3 DEF Effects, session
    <2>4. CASE LoggedIn(LoginScopes \union required, FALSE)
      <3>1. Roots(LoginScopes \union required) \subseteq Services \union Roots(Range(a.targets))
        BY <2>2, RootsOfPaths DEF Roots
      <3> HIDE DEF required
      <3> QED BY <1>1, <1>2, <1>3, <2>4, <3>1, LoggedInEffects DEF Effects
    <2> QED BY <2>1, <2>3, <2>4 DEF LoginCommand
  <1>4. CASE a.kind = "consent"
    <2>1. LoggedIn(a.targets \union {<<"auth">>}, FALSE)
      BY <1>4 DEF Follow, ConsentCommand
    <2>2. Roots(a.targets \union {<<"auth">>}) = Roots(a.targets) \union {"auth"}
      BY Tuples DEF Roots
    <2> QED BY <1>1, <1>2, <1>4, <2>1, <2>2, LoggedInEffects DEF Effects
  <1>5. CASE a.kind = "update"
    <2>1. LoggedIn(LoginScopes \union a.targets, TRUE)
      BY <1>5 DEF Follow, UpdateCommand
    <2> QED BY <1>1, <1>2, <1>5, <2>1, LoggedInEffects DEF Effects
  <1> QED BY <1>1, <1>3, <1>4, <1>5 DEF Remedies


\* What is not lacking before a remedy is not lacking after it.
LEMMA LacksNoMore ==
  ASSUME NEW c, NEW t, NEW r, NEW a, Effects(a)
  PROVE  /\ LacksServices(c)' => LacksServices(c)
         /\ LacksLogin(t)' => LacksLogin(t)
         /\ LacksDataAccess(c)' => LacksDataAccess(c)
         /\ LacksRecent(c)' => LacksRecent(c)
         /\ LacksNeeded(c)' => LacksNeeded(c)
         /\ LacksScopes(r)' => LacksScopes(r)
  BY DEF Effects, LacksServices, LacksLogin, LacksDataAccess, LacksRecent, LacksNeeded,
         LacksScopes, Needed, RequiresDataAccess

\* The policy of a flow is not lost unless the remedy is about the flow.
LEMMA PolicyKept ==
  ASSUME NEW c \in Commands, c.flow \in Flows, NEW a \in Remedies, Effects(a),
         \/ a.kind = "update"
         \/ a.kind = "login" /\ a.targets = <<>>
  PROVE  LacksPolicy(c, c.flow)' => LacksPolicy(c, c.flow)
  <1>1. c.flow \notin Services /\ Roots(Range(<<>>)) = {}
    BY ServersAssumption, Tuples DEF Roots
  <1> QED BY <1>1 DEF Effects, LacksPolicy

LEMMA ResumeNoMore ==
  ASSUME NEW c \in Commands, NEW r, NEW a, Effects(a),
         LacksPolicy(c, c.flow)' => LacksPolicy(c, c.flow)
  PROVE  ResumeEffort(r, c)' <= ResumeEffort(r, c) /\ ReasonEffort(r, c)' <= ReasonEffort(r, c)
  <1>1. /\ LacksLogin(<<c.flow>>)' => LacksLogin(<<c.flow>>)
        /\ LacksScopes(r)' => LacksScopes(r)
    BY LacksNoMore
  <1>2. high_assurance' = high_assurance
    BY DEF Effects
  <1>3. LacksPolicy(c, c.flow)' => c.flow \in high_assurance
    BY <1>2 DEF LacksPolicy
  <1>4. ReasonEffort(r, c)' <= ReasonEffort(r, c)
    BY <1>1 DEF ReasonEffort, IsInactive, One
  <1>5. ResumeEffort(r, c)' <= ResumeEffort(r, c)
    BY <1>1, <1>2, <1>3 DEF ResumeEffort, IsInactive, Careful, One
  <1> QED BY <1>4, <1>5

LEMMA RunEffort ==
  ASSUME NEW c \in Commands, c.name = "run_resume", NEW r, r = reason.run, reason' = reason
  PROVE  /\ Effort(c) = FlowsEffort(c) + ResumeEffort(r, c) + ReasonEffort(r, c)
         /\ Effort(c)' = FlowsEffort(c)' + ResumeEffort(r, c)' + ReasonEffort(r, c)'
  BY DEF Effort, FlowsEffort, ResumeEffort, ReasonEffort, Careful, One, LacksServices, LacksPolicy,
         LacksLogin, IsInactive, LacksScopes, ServicesOf

LEMMA TimerEffort ==
  ASSUME NEW c \in Commands, c.name = "timer_resume", NEW r, r = reason.timer, reason' = reason
  PROVE  /\ Effort(c) = One(LacksServices(c)) + ReasonEffort(r, c)
         /\ Effort(c)' = One(LacksServices(c)') + ReasonEffort(r, c)'
  BY DEF Effort, ReasonEffort, One, LacksServices, IsInactive, LacksScopes, ServicesOf

\* After a login that was advised for want of a token of a service.
LEMMA LoginLessens ==
  ASSUME NEW c \in Commands, NEW a \in Remedies, Effects(a),
         LacksServices(c), a.kind = "login", a.targets = <<>>
  PROVE  Effort(c)' + 1 <= Effort(c)
  <1>1. ~LacksServices(c)'
    <2>1. ServicesOf(c) \subseteq Services
      BY CommandParts DEF ServicesOf, Services
    <2> QED BY <2>1 DEF Effects, Carried, LacksServices
  <1>2. high_assurance' = high_assurance /\ reason' = reason
    BY DEF Effects
  <1>3. CASE c.name \in {"ls", "gcs", "guest", "timer_transfer"}
    <2>1. /\ LacksDataAccess(c)' => LacksDataAccess(c)
          /\ LacksLogin(<<c.endpoint>>)' => LacksLogin(<<c.endpoint>>)
          /\ LacksRecent(c)' => LacksRecent(c)
          /\ LacksNeeded(c)' => LacksNeeded(c)
      BY LacksNoMore
    <2>2. LacksLogin(DataAccessTarget(c.collection))' => LacksLogin(DataAccessTarget(c.collection))
      BY <1>2 DEF Effects, LacksLogin, DataAccessTarget, RequiresDataAccess
    <2> QED BY <1>1, <1>3, <2>1, <2>2 DEF Effort, One
  <1>4. CASE c.name \in {"flow_show", "flow_start", "timer_flow", "run_resume"}
    <2>1. c.flow \in Flows
      BY <1>4, CommandParts
    <2>2. LacksPolicy(c, c.flow)' => LacksPolicy(c, c.flow)
      BY <2>1, PolicyKept
    <2>3. /\ \A rs : LacksPolicy(c, rs)' => c.flow \in high_assurance
          /\ FlowsEffort(c)' <= Careful(c) /\ FlowsEffort(c) = 1 + Careful(c)
          /\ Careful(c) \in Nat /\ FlowsEffort(c)' \in Nat
      BY <1>1, <1>2 DEF LacksPolicy, FlowsEffort, Careful, One
    <2>4. CASE c.name = "flow_show"
      BY <2>3, <2>4 DEF Effort
    <2>5. CASE c.name = "flow_start"
      <3>1. LacksLogin(<<c.flow>>)' => LacksLogin(<<c.flow>>)
        BY LacksNoMore
      <3> QED BY <1>1, <1>2, <2>2, <2>3, <2>5, <3>1 DEF Effort, Careful, One
    <2>6. CASE c.name = "timer_flow"
      <3>1. LacksLogin(<<"timers", c.flow>>)' => LacksLogin(<<"timers", c.flow>>)
        BY LacksNoMore
      <3>2. Careful(c)' = Careful(c)
        BY <1>2 DEF Careful
      <3> QED BY <2>3, <2>6, <3>1, <3>2 DEF Effort
    <2>7. CASE c.name = "run_resume"
      <3> DEFINE r == reason.run
      <3>1. PICK q : q = r
        OBVIOUS
      <3>2. ResumeEffort(q, c)' <= ResumeEffort(q, c) /\ ReasonEffort(q, c)' <= ReasonEffort(q, c)
        BY <2>2, ResumeNoMore
      <3>3. /\ ResumeEffort(q, c) \in Nat /\ ReasonEffort(q, c) \in Nat
            /\ ResumeEffort(q, c)' \in Nat /\ ReasonEffort(q, c)' \in Nat
        BY DEF ResumeEffort, ReasonEffort, Careful, One
      <3>4. /\ Effort(c) = FlowsEffort(c) + ResumeEffort(q, c) + ReasonEffort(q, c)
            /\ Effort(c)' = FlowsEffort(c)' + ResumeEffort(q, c)' + ReasonEffort(q, c)'
        BY <1>2, <2>7, <3>1, RunEffort
      <3> QED BY <2>3, <3>2, <3>3, <3>4
    <2> QED BY <1>4, <2>4, <2>5, <2>6, <2>7
  <1>5. CASE c.name = "timer_resume"
    <2>1. PICK q : q = reason.timer
      OBVIOUS
    <2>2. ReasonEffort(q, c)' <= ReasonEffort(q, c)
      <3>1. LacksScopes(q)' => LacksScopes(q)
        BY LacksNoMore
      <3> QED BY <3>1 DEF ReasonEffort, IsInactive, One
    <2>3. ReasonEffort(q, c) \in Nat /\ ReasonEffort(q, c)' \in Nat
      BY DEF ReasonEffort, One
    <2>4. /\ Effort(c) = One(LacksServices(c)) + ReasonEffort(q, c)
          /\ Effort(c)' = One(LacksServices(c)') + ReasonEffort(q, c)'
      BY <1>2, <1>5, <2>1, TimerEffort
    <2> QED BY <1>1, <2>2, <2>3, <2>4 DEF One
  <1> QED BY <1>3, <1>4, <1>5, CommandParts


\* After the other remedies, command by command.
LEMMA ScopesLessen ==
  ASSUME NEW c \in Commands, NEW a \in Remedies, Effects(a), ~LacksServices(c), Because(a, c),
         c.name \in {"ls", "gcs", "guest", "timer_transfer"}
  PROVE  a.then = c /\ Effort(c)' + 1 <= Effort(c)
  <1>1. a.then = c /\ ~LacksServices(c)'
    BY LacksNoMore DEF Because, ReasonBecause
  <1>2. CASE c.name = "ls"
    <2>1. a.kind = "consent" /\ a.targets = {DataAccess(c.collection)} /\ LacksDataAccess(c)
      BY <1>2 DEF Because
    <2>2. Dependent(a.targets) = a.targets
      BY <1>2, <2>1, CommandParts, DependentPaths
    <2>3. ~LacksDataAccess(c)'
      BY <2>1, <2>2 DEF Effects, Carried, LacksDataAccess
    <2> QED BY <1>1, <1>2, <2>1, <2>3 DEF Effort, One
  <1>3. CASE c.name = "gcs"
    <2>1. a.kind = "login" /\ a.targets = <<<<c.endpoint>>>> /\ LacksLogin(<<c.endpoint>>)
      BY <1>3 DEF Because
    <2>2. ~LacksLogin(<<c.endpoint>>)'
      BY <2>1, Tuples DEF Effects, Carried, LacksLogin
    <2> QED BY <1>1, <1>3, <2>1, <2>2 DEF Effort, One
  <1>4. CASE c.name = "guest"
    <2> DEFINE t == DataAccessTarget(c.collection)
    <2>1. a.kind = "login" /\ a.targets = <<t>> /\ (LacksLogin(t) \/ (LacksRecent(c) /\ a.force))
      <3>1. /\ a.kind = "login" /\ a.targets = <<DataAccessTarget(c.collection)>>
            /\ \/ LacksLogin(DataAccessTarget(c.collection))
               \/ LacksRecent(c) /\ a.force
        BY <1>4 DEF Because
      <3> QED BY <3>1
    <2>2. t \in Range(a.targets) /\ Head(t) = Owner[c.collection] /\ Owner[c.collection] \in Endpoints
      BY <1>4, <2>1, CommandParts, DataAccessTargets, Tuples
    <2>3. t' = t
      BY DEF Effects, DataAccessTarget, RequiresDataAccess
    <2> HIDE DEF t
    <2>4. /\ Head(t) \in tokens' /\ (Len(t) > 1 => t \in consents')
          /\ a.force => Owner[c.collection] \in recent'
      BY <2>1, <2>2 DEF Effects, Carried
    <2>5. ~LacksLogin(t)'
      BY <2>3, <2>4 DEF LacksLogin
    <2>6. LacksRecent(c)' => LacksRecent(c) /\ ~a.force
      BY <2>4, LacksNoMore DEF LacksRecent
    <2>7. /\ Effort(c) = One(LacksServices(c)) + One(LacksLogin(t)) + One(LacksRecent(c))
          /\ Effort(c)' = One(LacksServices(c)') + One(LacksLogin(t)') + One(LacksRecent(c)')
      BY <1>4 DEF Effort, One, t
    <2> QED BY <1>1, <2>1, <2>5, <2>6, <2>7 DEF One
  <1>5. CASE c.name = "timer_transfer"
    <2>1. a.kind = "consent" /\ a.targets = Needed(c) \ consents /\ LacksNeeded(c)
      BY <1>5 DEF Because
    <2>2. Needed(c) \subseteq Dependent(Paths)
      BY <1>5, CommandParts, DependentPaths DEF Needed
    <2>3. Dependent(a.targets) = a.targets
      BY <2>1, <2>2, DependentPaths
    <2>4. Needed(c) \subseteq consents' /\ Needed(c)' = Needed(c)
      BY <2>1, <2>3 DEF Effects, Carried, Needed, RequiresDataAccess
    <2>5. ~LacksNeeded(c)'
      BY <2>4 DEF LacksNeeded
    <2> QED BY <1>1, <1>5, <2>1, <2>5 DEF Effort, One
  <1> QED BY <1>1, <1>2, <1>3, <1>4, <1>5

LEMMA FlowLessens ==
  ASSUME NEW c \in Commands, NEW a \in Remedies, Effects(a), ~LacksServices(c), Because(a, c),
         c.name \in {"flow_show", "flow_start", "timer_flow"}
  PROVE  a.then = c /\ Effort(c)' + 1 <= Effort(c)
  <1>1. a.then = c /\ ~LacksServices(c)'
    BY LacksNoMore DEF Because, ReasonBecause
  <1>2. high_assurance' = high_assurance /\ c.flow \in Flows
    BY CommandParts DEF Effects
  <1>3. /\ LacksLogin(<<c.flow>>)' => LacksLogin(<<c.flow>>)
        /\ LacksLogin(<<"timers", c.flow>>)' => LacksLogin(<<"timers", c.flow>>)
    BY LacksNoMore
  <1>4. \A rs : LacksPolicy(c, rs)' => c.flow \in high_assurance
    BY <1>2 DEF LacksPolicy
  <1>5. CASE c.name \in {"flow_show", "timer_flow"} /\ LacksPolicy(c, "flows") /\ a.kind = "update"
    <2>1. ~LacksPolicy(c, "flows")'
      BY <1>5 DEF Effects, Carried, LacksPolicy
    <2> QED BY <1>1, <1>2, <1>3, <1>5, <2>1 DEF Effort, FlowsEffort, Careful, One
  <1>6. CASE /\ c.name = "flow_start" /\ LacksLogin(<<c.flow>>)
             /\ a.kind = "login" /\ a.targets = <<<<c.flow>>>>
    <2>1. ~LacksLogin(<<c.flow>>)'
      BY <1>6, Tuples DEF Effects, Carried, LacksLogin
    <2> QED BY <1>1, <1>2, <1>4, <1>6, <2>1 DEF Effort, Careful, One
  <1>7. CASE /\ c.name = "timer_flow" /\ LacksLogin(<<"timers", c.flow>>)
             /\ ~LacksPolicy(c, "flows")
             /\ a.kind = "login" /\ a.targets = <<<<"timers", c.flow>>>>
    <2>1. ~LacksLogin(<<"timers", c.flow>>)'
      BY <1>7, Tuples DEF Effects, Carried, LacksLogin
    <2> QED BY <1>1, <1>2, <1>4, <1>7, <2>1 DEF Effort, FlowsEffort, Careful, One
  <1>8. CASE /\ c.name = "flow_start" /\ LacksPolicy(c, c.flow) /\ ~LacksLogin(<<c.flow>>)
             /\ a.kind = "update" /\ a.targets = {<<c.flow>>}
    <2>1. c.flow \in Roots(a.targets) /\ c.flow \in FlowServers
      BY <1>2, <1>8, Tuples DEF Roots, FlowServers
    <2>2. ~LacksPolicy(c, c.flow)'
      BY <1>8, <2>1 DEF Effects, Carried, LacksPolicy
    <2> QED BY <1>1, <1>3, <1>8, <2>2 DEF Effort, One
  <1> QED BY <1>1, <1>5, <1>6, <1>7, <1>8 DEF Because

\* What an inactive run or timer waits for.
LEMMA ScopesCarried ==
  ASSUME NEW c, NEW S, S \subseteq Dependent(Paths), NEW r \in Reason(S), NEW a \in Remedies,
         Effects(a), ReasonBecause(r, a, c)
  PROVE  ~LacksScopes(r)'
  <1>1. r.scopes \subseteq S /\ a.targets = r.scopes /\ a.kind \in {"update", "consent"}
    BY DEF Reason, ReasonBecause
  <1>2. Dependent(a.targets) = r.scopes
    BY <1>1, DependentPaths
  <1> QED BY <1>1, <1>2 DEF Effects, Carried, LacksScopes


LEMMA CommandFields ==
  ASSUME NEW c \in Commands, c.name \in {"run_resume", "timer_resume"}
  PROVE  LET d == [c EXCEPT !.skip = TRUE]
         IN  /\ d \in Commands /\ d.name = c.name /\ d.skip = TRUE
             /\ c.name = "run_resume" => d.flow = c.flow
  <1>1. CASE c \in [name : {"run_resume"}, flow : Flows, skip : BOOLEAN]
    BY <1>1, CommandParts
  <1>2. CASE c \in [name : {"timer_resume"}, skip : BOOLEAN]
    BY <1>2, CommandParts
  <1> QED BY <1>1, <1>2 DEF Commands


\* A run is resumed after a login, an update of the session, and its scopes.
LEMMA ResumeLessens ==
  ASSUME TypeOK, NEW c \in Commands, NEW a \in Remedies, Effects(a), ~LacksServices(c),
         Because(a, c), c.name = "run_resume"
  PROVE  Effort(a.then)' + 1 <= Effort(c)
  <1>1. ~LacksServices(c)' /\ c.flow \in Flows /\ c.skip \in BOOLEAN
    BY LacksNoMore, CommandParts
  <1>2. high_assurance' = high_assurance /\ reason' = reason
    BY DEF Effects
  <1>3. /\ LacksPolicy(c, c.flow)' => c.flow \in high_assurance
        /\ LacksPolicy(c, "flows")' => c.flow \in high_assurance
    BY <1>2 DEF LacksPolicy
  <1>4. PICK r : r = reason.run
    OBVIOUS
  <1>5. r \in {None} \union Reason(RunScopes) /\ RunScopes \subseteq Dependent(Paths)
    BY <1>4, DependentPaths DEF TypeOK
  <1>6. /\ Effort(c) = FlowsEffort(c) + ResumeEffort(r, c) + ReasonEffort(r, c)
        /\ Effort(c)' = FlowsEffort(c)' + ResumeEffort(r, c)' + ReasonEffort(r, c)'
    BY <1>2, <1>4, RunEffort
  <1>7. /\ FlowsEffort(c) = One(LacksPolicy(c, "flows"))
        /\ FlowsEffort(c)' = One(LacksPolicy(c, "flows")')
    BY <1>1 DEF FlowsEffort, One
  <1>8. LacksScopes(r)' => LacksScopes(r)
    BY LacksNoMore
  <1>9. LacksLogin(<<c.flow>>)' => LacksLogin(<<c.flow>>)
    BY LacksNoMore
  <1>10. ReasonEffort(r, c)' <= ReasonEffort(r, c)
    BY <1>8 DEF ReasonEffort, IsInactive, One
  <1>11. /\ ReasonEffort(r, c) \in Nat /\ ReasonEffort(r, c)' \in Nat
         /\ ResumeEffort(r, c) \in Nat /\ ResumeEffort(r, c)' \in Nat
    BY DEF ReasonEffort, ResumeEffort, Careful, One
  <1>12. CASE a.then = c /\ LacksPolicy(c, "flows") /\ a.kind = "update"
    <2>1. ~LacksPolicy(c, "flows")'
      BY <1>12 DEF Effects, Carried, LacksPolicy
    <2>2. LacksPolicy(c, c.flow)' => LacksPolicy(c, c.flow)
      BY <1>1, <1>12, PolicyKept
    <2>3. ResumeEffort(r, c)' <= ResumeEffort(r, c)
      BY <2>2, ResumeNoMore
    <2> QED BY <1>6, <1>7, <1>10, <1>11, <1>12, <2>1, <2>3 DEF One
  <1>13. CASE /\ a.then = c /\ LacksLogin(<<c.flow>>) /\ ~LacksPolicy(c, "flows")
              /\ a.kind = "login" /\ a.targets = <<<<c.flow>>>>
    <2>1. ~LacksLogin(<<c.flow>>)'
      BY <1>13, Tuples DEF Effects, Carried, LacksLogin
    <2>2. ResumeEffort(r, c) = 1 + Careful(c) + Careful(c) /\ ResumeEffort(r, c)' <= Careful(c)
      BY <1>2, <1>3, <1>13, <2>1 DEF ResumeEffort, Careful, One
    <2>3. FlowsEffort(c) = 0 /\ FlowsEffort(c)' <= Careful(c) /\ Careful(c) \in Nat
          /\ FlowsEffort(c)' \in Nat
      BY <1>3, <1>7, <1>13 DEF Careful, One
    <2> QED BY <1>6, <1>10, <1>11, <1>13, <2>2, <2>3
  <1>14. CASE /\ a.then = c /\ LacksPolicy(c, c.flow) /\ ~LacksLogin(<<c.flow>>)
              /\ ~LacksPolicy(c, "flows")
              /\ IsInactive(r, c) => ~LacksScopes(r) /\ ~r.policy
              /\ a.kind = "update" /\ a.targets = {<<c.flow>>}
    <2>1. c.flow \in Roots(a.targets) /\ c.flow \in FlowServers
      BY <1>1, <1>14, Tuples DEF Roots, FlowServers
    <2>2. ~LacksPolicy(c, c.flow)' /\ ~LacksPolicy(c, "flows")'
      BY <1>14, <2>1 DEF Effects, Carried, LacksPolicy
    <2>3. ResumeEffort(r, c) = 1 /\ ResumeEffort(r, c)' = 0
      BY <1>8, <1>9, <1>14, <2>2 DEF ResumeEffort, IsInactive, One
    <2>4. FlowsEffort(c)' = 0 /\ FlowsEffort(c) = 0
      BY <1>7, <1>14, <2>2 DEF One
    <2> QED BY <1>6, <1>10, <1>11, <1>14, <2>3, <2>4
  <1>15. CASE ~LacksPolicy(c, "flows") /\ ~LacksLogin(<<c.flow>>) /\ ReasonBecause(r, a, c)
    <2>1. r \in Reason(RunScopes) /\ ~LacksScopes(r)' /\ ~LacksLogin(<<c.flow>>)'
      BY <1>5, <1>9, <1>15, ScopesCarried DEF ReasonBecause, IsInactive
    <2>2. FlowsEffort(c) = 0
      BY <1>7, <1>15 DEF One
    <2>3. r.policy \in BOOLEAN
      BY <2>1 DEF Reason
    <2>4. CASE r.policy /\ a.kind = "update"
      <3>1. /\ ~LacksPolicy(c, "flows")'
            /\ LacksPolicy(c, c.flow)' => LacksPolicy(c, c.flow)
        BY <1>15, <2>4 DEF Effects, LacksPolicy
      <3>2. ResumeEffort(r, c)' <= ResumeEffort(r, c) /\ FlowsEffort(c)' = 0
        BY <1>7, <3>1, ResumeNoMore DEF One
      <3>3. CASE LacksScopes(r) /\ a.then = c
        <4>1. ReasonEffort(r, c) = 2 /\ ReasonEffort(r, c)' = 1
          BY <1>15, <2>1, <2>4, <3>3 DEF ReasonBecause, ReasonEffort, IsInactive, One
        <4> QED BY <1>6, <1>11, <2>2, <3>2, <3>3, <4>1
      <3>4. CASE ~LacksScopes(r) /\ a.then = [c EXCEPT !.skip = TRUE]
        <4> DEFINE d == [c EXCEPT !.skip = TRUE]
        <4>1. d \in Commands /\ d.name = "run_resume" /\ d.flow = c.flow /\ d.skip = TRUE
          BY CommandFields
        <4> HIDE DEF d
        <4>2. /\ Effort(d)' = FlowsEffort(d)' + ResumeEffort(r, d)' + ReasonEffort(r, d)'
          BY <1>2, <1>4, <4>1, RunEffort
        <4>3. ReasonEffort(r, c) = 1 /\ ReasonEffort(r, d)' = 0
          BY <1>15, <2>4, <3>4, <4>1 DEF ReasonBecause, ReasonEffort, IsInactive, One
        <4>4. /\ LacksServices(d)' <=> LacksServices(c)'
              /\ LacksPolicy(d, "flows")' <=> LacksPolicy(c, "flows")'
              /\ LacksPolicy(d, c.flow)' <=> LacksPolicy(c, c.flow)'
          BY <4>1 DEF LacksServices, ServicesOf, LacksPolicy
        <4>5. FlowsEffort(d)' = 0
          BY <1>1, <3>1, <4>4 DEF FlowsEffort, One
        <4>6. ResumeEffort(r, d)' = One(LacksPolicy(c, c.flow)')
          BY <2>1, <4>1, <4>4 DEF ResumeEffort, IsInactive, One
        <4>7. ResumeEffort(r, c) = One(LacksPolicy(c, c.flow))
          BY <1>15, <3>4 DEF ResumeEffort, One
        <4>8. Effort(d)' + 1 <= Effort(c)
          BY <1>6, <2>2, <3>1, <4>2, <4>3, <4>5, <4>6, <4>7 DEF One
        <4> QED BY <3>4, <4>8 DEF d
      <3> QED BY <1>15, <2>4, <3>3, <3>4 DEF ReasonBecause
    <2>5. CASE ~r.policy /\ a.kind = "consent" /\ LacksScopes(r) /\ a.then = c
      <3>1. "flows" \notin Roots(a.targets) \union {"auth"}
        <4>1. a.targets \subseteq RunScopes
          BY <1>15, <2>1 DEF ReasonBecause, Reason
        <4>2. \A p \in RunScopes : Head(p) \in Flows
          BY Tuples DEF RunScopes
        <4>3. "flows" \notin Flows
          BY ServersAssumption DEF Services
        <4> QED BY <4>1, <4>2, <4>3 DEF Roots
      <3>2. ~LacksPolicy(c, "flows")'
        BY <1>15, <2>5, <3>1 DEF Effects, LacksPolicy
      <3>3. FlowsEffort(c)' = 0
        BY <1>7, <3>2 DEF One
      <3>4. ReasonEffort(r, c) = 1 /\ ReasonEffort(r, c)' = 0
        BY <1>15, <2>1, <2>5 DEF ReasonBecause, ReasonEffort, IsInactive, One
      <3>5. ResumeEffort(r, c) = Careful(c) /\ ResumeEffort(r, c)' <= Careful(c)
        BY <1>2, <1>3, <1>15, <2>1, <2>5 DEF ReasonBecause, ResumeEffort, IsInactive, Careful, One
      <3> QED BY <1>6, <1>11, <2>2, <2>5, <3>3, <3>4, <3>5
    <2> QED BY <1>15, <2>3, <2>4, <2>5 DEF ReasonBecause
  <1> QED BY <1>4, <1>12, <1>13, <1>14, <1>15 DEF Because

LEMMA TimerLessens ==
  ASSUME TypeOK, NEW c \in Commands, NEW a \in Remedies, Effects(a), ~LacksServices(c),
         Because(a, c), c.name = "timer_resume"
  PROVE  Effort(a.then)' + 1 <= Effort(c)
  <1>1. ~LacksServices(c)' /\ c.skip \in BOOLEAN /\ reason' = reason
    BY LacksNoMore, CommandParts DEF Effects
  <1>2. PICK r : r = reason.timer
    OBVIOUS
  <1>3. r \in {None} \union Reason(TimerScopes) /\ TimerScopes \subseteq Dependent(Paths)
    BY <1>2, DependentPaths DEF TypeOK
  <1>4. ReasonBecause(r, a, c)
    BY <1>2 DEF Because
  <1>5. r \in Reason(TimerScopes) /\ ~LacksScopes(r)' /\ r.policy \in BOOLEAN
    BY <1>3, <1>4, ScopesCarried DEF ReasonBecause, IsInactive, Reason
  <1>6. /\ Effort(c) = One(LacksServices(c)) + ReasonEffort(r, c)
        /\ Effort(c)' = One(LacksServices(c)') + ReasonEffort(r, c)'
    BY <1>1, <1>2, TimerEffort
  <1>7. CASE LacksScopes(r) /\ a.then = c
    <2>1. ReasonEffort(r, c) = 1 + One(r.policy) /\ ReasonEffort(r, c)' = One(r.policy)
      BY <1>4, <1>5, <1>7 DEF ReasonBecause, ReasonEffort, IsInactive, One
    <2> QED BY <1>1, <1>6, <1>7, <2>1 DEF One
  <1>8. CASE ~LacksScopes(r) /\ r.policy /\ a.then = [c EXCEPT !.skip = TRUE]
    <2> DEFINE d == [c EXCEPT !.skip = TRUE]
    <2>1. d \in Commands /\ d.name = "timer_resume" /\ d.skip = TRUE
      BY CommandFields
    <2> HIDE DEF d
    <2>2. Effort(d)' = One(LacksServices(d)') + ReasonEffort(r, d)'
      BY <1>1, <1>2, <2>1, TimerEffort
    <2>3. ReasonEffort(r, c) = 1 /\ ReasonEffort(r, d)' = 0
      BY <1>4, <1>8, <2>1 DEF ReasonBecause, ReasonEffort, IsInactive, One
    <2>4. LacksServices(d)' <=> LacksServices(c)'
      BY <2>1 DEF LacksServices, ServicesOf
    <2>5. Effort(d)' + 1 <= Effort(c)
      BY <1>1, <1>6, <2>2, <2>3, <2>4 DEF One
    <2> QED BY <1>8, <2>5 DEF d
  <1> QED BY <1>4, <1>7, <1>8 DEF ReasonBecause


LEMMA FollowLessens ==
  ASSUME TypeOK, Follow, NEW c \in Commands, NEW a, a = advice, Because(a, c)
  PROVE  Effort(a.then)' + 1 <= Effort(c)
  <1>1. Effects(a) /\ a \in Remedies
    BY FollowEffects DEF Follow, TypeOK
  <1>2. CASE LacksServices(c)
    BY <1>1, <1>2, LoginLessens DEF Because
  <1>3. CASE ~LacksServices(c) /\ c.name \in {"ls", "gcs", "guest", "timer_transfer"}
    BY <1>1, <1>3, ScopesLessen
  <1>4. CASE ~LacksServices(c) /\ c.name \in {"flow_show", "flow_start", "timer_flow"}
    BY <1>1, <1>4, FlowLessens
  <1>5. CASE ~LacksServices(c) /\ c.name = "run_resume"
    BY <1>1, <1>5, ResumeLessens
  <1>6. CASE ~LacksServices(c) /\ c.name = "timer_resume"
    BY <1>1, <1>6, TimerLessens
  <1> QED BY <1>2, <1>3, <1>4, <1>5, <1>6, CommandParts

\* A refusal changes nothing but what the user is told.
LEMMA RefusalChangesNothing ==
  ASSUME NEW c, NEW a, high_assurance' = high_assurance, reason' = reason, UNCHANGED session
  PROVE  Effort(c)' = Effort(c) /\ (Because(a, c)' <=> Because(a, c))
  <1>1. /\ LacksServices(c)' <=> LacksServices(c)
        /\ \A t : LacksLogin(t)' <=> LacksLogin(t)
        /\ \A rs : LacksPolicy(c, rs)' <=> LacksPolicy(c, rs)
        /\ LacksRecent(c)' <=> LacksRecent(c)
        /\ LacksDataAccess(c)' <=> LacksDataAccess(c)
        /\ LacksNeeded(c)' <=> LacksNeeded(c)
        /\ Needed(c)' = Needed(c)
        /\ \A r : LacksScopes(r)' <=> LacksScopes(r)
        /\ DataAccessTarget(c.collection)' = DataAccessTarget(c.collection)
        /\ consents' = consents
    BY DEF session, LacksServices, LacksLogin, LacksPolicy, LacksRecent, LacksDataAccess,
           LacksNeeded, LacksScopes, Needed, RequiresDataAccess, DataAccessTarget
  <1>2. Because(a, c)' <=> Because(a, c)
    BY <1>1 DEF Because, ReasonBecause, IsInactive
  <1>3. Effort(c)' = Effort(c)
    BY <1>1 DEF Effort, FlowsEffort, ResumeEffort, ReasonEffort, IsInactive, Careful, One
  <1> QED BY <1>2, <1>3


LEMMA RunCounts ==
  ASSUME RemedyInv, NEW c \in Commands, NEW earlier \in Nat, Run(c, earlier),
         earlier + Effort(c) <= 7
  PROVE  Counted'
  <1>1. TypeOK
    BY DEF RemedyInv
  <1>2. CASE cmd' = None /\ advice' = None /\ refusals' = 0
    BY <1>2 DEF Counted
  <1>3. CASE /\ cmd' = c /\ refusals' = earlier + 1 /\ reason' = reason
             /\ \E check : /\ FirstFails(Checks(c), check)
                           /\ advice' \in check.says /\ advice' \in Remedies
    <2>1. PICK a : a = advice'
      OBVIOUS
    <2>2. Because(a, c)
      BY <1>1, <1>3, <2>1, WhyRefused
    <2>3. followed' = FALSE /\ high_assurance' = high_assurance /\ UNCHANGED session
      BY <1>1, RunStep
    <2>4. Effort(c)' = Effort(c) /\ Because(a, c)'
      BY <1>3, <2>2, <2>3, RefusalChangesNothing
    <2>5. Effort(cmd)' = Effort(c)'
      BY <1>3, <2>3 DEF Effort, FlowsEffort, ResumeEffort, ReasonEffort, Careful, One,
         LacksServices, LacksLogin, LacksPolicy, LacksDataAccess, LacksRecent, LacksNeeded,
         LacksScopes, IsInactive, Needed, RequiresDataAccess, DataAccessTarget, ServicesOf
    <2>6. Because(advice, cmd)' <=> Because(a, c)'
      BY <1>3, <2>1 DEF Because, ReasonBecause,
         LacksServices, LacksLogin, LacksPolicy, LacksDataAccess, LacksRecent, LacksNeeded,
         LacksScopes, IsInactive, Needed, RequiresDataAccess, DataAccessTarget, ServicesOf
    <2>7. Effort(c) \in Nat
      BY EffortBounds
    <2> QED BY <1>3, <2>3, <2>4, <2>5, <2>6, <2>7 DEF Counted
  <1> QED BY <1>1, <1>2, <1>3, RunStep

LEMMA FollowCounts ==
  ASSUME RemedyInv, Counted, Follow
  PROVE  Counted'
  <1>1. TypeOK /\ refusals \in Nat /\ ~followed /\ advice # None
        /\ followed' = TRUE /\ refusals' = refusals /\ advice' = advice
    BY DEF RemedyInv, TypeOK, Follow
  <1>2. PICK a, c : a = advice /\ c = cmd
    OBVIOUS
  <1>3. c \in Commands /\ Because(a, c) /\ refusals + Effort(c) <= 8
    BY <1>1, <1>2 DEF Counted
  <1>4. Effort(a.then)' + 1 <= Effort(c) /\ Effort(c) \in Nat
    BY <1>1, <1>2, <1>3, FollowLessens, EffortBounds
  <1>5. a.then \in Commands
    BY <1>1, <1>2 DEF TypeOK, Remedies
  <1>6. Effort(a.then)' \in Nat
    BY <1>5, EffortIsNumber
  <1>7. Effort(advice.then)' = Effort(a.then)'
    BY <1>1, <1>2 DEF Effort
  <1> QED BY <1>1, <1>3, <1>4, <1>6, <1>7 DEF Counted

\* The invariant, with what a remedy leaves behind and the effort that is left.
CountInv == RemedyInv /\ Counted

LEMMA CountNext == CountInv /\ [Next]_vars => CountInv'
  <1> SUFFICES ASSUME RemedyInv, Counted, [Next]_vars PROVE Counted'
    BY RemedyNext DEF CountInv
  <1>1. CASE UNCHANGED vars
    <2>1. /\ high_assurance' = high_assurance /\ reason' = reason /\ UNCHANGED session
          /\ advice' = advice /\ cmd' = cmd /\ followed' = followed /\ refusals' = refusals
      BY <1>1 DEF vars
    <2>2. PICK a, c, b : a = advice /\ c = cmd /\ b = advice.then
      OBVIOUS
    <2>3. Effort(c)' = Effort(c) /\ (Because(a, c)' <=> Because(a, c)) /\ Effort(b)' = Effort(b)
      BY <2>1, RefusalChangesNothing
    <2>4. Effort(cmd)' = Effort(c)' /\ Effort(advice.then)' = Effort(b)'
      BY <2>1, <2>2 DEF Effort, FlowsEffort, ResumeEffort, ReasonEffort, Careful, One,
         LacksServices, LacksLogin, LacksPolicy, LacksDataAccess, LacksRecent, LacksNeeded,
         LacksScopes, IsInactive, Needed, RequiresDataAccess, DataAccessTarget, ServicesOf
    <2>5. Because(advice, cmd)' <=> Because(a, c)'
      BY <2>1, <2>2 DEF Because, ReasonBecause,
         LacksServices, LacksLogin, LacksPolicy, LacksDataAccess, LacksRecent, LacksNeeded,
         LacksScopes, IsInactive, Needed, RequiresDataAccess, DataAccessTarget, ServicesOf
    <2> QED BY <2>1, <2>2, <2>3, <2>4, <2>5 DEF Counted
  <1>2. CASE \E c \in Commands : Invoke(c)
    <2>1. PICK c \in Commands : Run(c, 0)
      BY <1>2 DEF Invoke
    <2>2. 0 + Effort(c) <= 7
      BY EffortBounds
    <2> QED BY <2>1, <2>2, RunCounts
  <1>3. CASE Retry
    <2>1. advice.then \in Commands /\ refusals \in Nat /\ followed /\ advice # None
      BY <1>3 DEF Retry, RemedyInv, TypeOK, Followed, Remedies
    <2>2. refusals + Effort(advice.then) <= 7
      BY <2>1 DEF Counted
    <2>3. PICK c \in Commands : c = advice.then
      BY <2>1
    <2>4. refusals + Effort(c) <= 7 /\ Run(c, refusals)
      BY <1>3, <2>2, <2>3 DEF Retry
    <2> QED BY <2>1, <2>4, RunCounts
  <1>4. CASE Follow
    BY <1>4, FollowCounts
  <1>5. ASSUME refusals' = 0, advice' = None PROVE Counted'
    BY <1>5 DEF Counted
  <1> QED BY <1>1, <1>2, <1>3, <1>4, <1>5
          DEF Next, Login, Logout, SessionExpires, Withdraw, LoseTokens, Pause, Elsewhere

\* No command is refused more than seven times by a user who does what he is
\* told, whatever the command lacks and in whatever order it is asked for.
THEOREM FewTheorem == Spec => []FewRefusals
  <1>1. Init => CountInv
    BY RemedyInit DEF Init, CountInv, Counted
  <1>2. ASSUME CountInv PROVE FewRefusals
    <2>1. refusals \in Nat /\ TypeOK
      BY <1>2 DEF CountInv, RemedyInv, TypeOK
    <2>2. CASE refusals = 0
      BY <2>2 DEF FewRefusals
    <2>3. CASE cmd \in Commands /\ Because(advice, cmd) /\ refusals + Effort(cmd) <= 8
      BY <2>1, <2>3, EffortBounds, RefusalCounted DEF FewRefusals
    <2>4. CASE followed /\ refusals + Effort(advice.then) <= 7
      <3>1. advice.then \in Commands
        BY <1>2, <2>4 DEF CountInv, RemedyInv, TypeOK, Followed, Remedies
      <3> QED BY <2>1, <2>4, <3>1, EffortBounds DEF FewRefusals
    <2> QED BY <1>2, <2>2, <2>3, <2>4 DEF CountInv, Counted
  <1> QED BY <1>1, <1>2, CountNext, PTL DEF Spec
===============================================================================

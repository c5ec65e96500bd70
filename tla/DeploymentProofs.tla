-------------------------- MODULE DeploymentProofs --------------------------
(***************************************************************************)
(* The deployment scripts, however often they are run and wherever they    *)
(* stop, with any constants.ts that names its contracts as the scripts     *)
(* build the names: what is open is registered, what is handed over has    *)
(* its implementation, and nothing that was done is undone.                *)
(*                                                                         *)
(* A script is a concatenation of steps.  Each step is safe by itself      *)
(* (SafeStep): what it gives, it gives because of what it needs.  Two      *)
(* kinds of step are safe because of the step just before them (Ordered):  *)
(* that which unpauses a VaultManager, and that which hands the proxy of   *)
(* the stablecoin over.  Both are closed under concatenation, so that they *)
(* hold of every script; the invariant then says what the run has done     *)
(* before such a step (Armed), and which scripts it began with (Resumed).  *)
(***************************************************************************)
EXTENDS Deployment, SequenceTheorems, TLAPS

-----------------------------------------------------------------------------
\* Steps and scripts.

\* The deployments of a step are recorded under one name, and leave a treasury that was
\* mined where it is.
SafeDeploys(s) ==
    /\ \A d, e \in s.deploys : d[1] = e[1] => d = e
    /\ \A d \in s.deploys : IsRecord(d) /\ d[1] \notin Sentences
    /\ \A d \in s.deploys : d[2] = "mined" => s.reuses

\* A step that registers needs a treasury that is ready, and one that initializes a
\* treasury needs the stablecoin of it.
SafeGives(s) ==
    \A f \in s.gives :
        /\ IsFact(f) /\ f[1] \notin {"Treasury_EUR", "not paused"}
        /\ f[1] = "registered" => Ready(f[3]) \in s.needs
        /\ f[1] = "its stablecoin is initialized" =>
              \/ Given("stablecoin") \in s.needs
              \/ f[2] = "Treasury_EUR" /\ <<"Treasury_EUR", "AgToken_EUR">> \in s.needs

SafeFlips(s) == \A f \in s.flips : f = Open(f[2], f[3])

\* A safe step that deploys none of the contracts X.
Safe(X, s) == SafeDeploys(s) /\ SafeGives(s) /\ SafeFlips(s) /\ s.deploys \intersect X = {}

Alone(s) == s.flips = {} /\ Given("stablecoin") \notin s.gives

Leads(before, s) ==
    /\ \A f \in s.flips : before = Register(f[2], f[3])[1]
    /\ Given("stablecoin") \in s.gives => before = UpgradeTo[1]

Ordered(steps) ==
    \A i \in 1..Len(steps) : Alone(steps[i]) \/ (i > 1 /\ Leads(steps[i - 1], steps[i]))

Good(X, steps) ==
    /\ steps \in Seq(Range(steps))
    /\ \A i \in 1..Len(steps) : Safe(X, steps[i])
    /\ Ordered(steps)

-----------------------------------------------------------------------------
\* The invariant.

OneCrashARun == crashes + (IF queue = << >> THEN 0 ELSE 1) <= runs

Ahead == Steps[pos + 1]

Armed ==
    queue # << >> /\ pos < Len(Steps) =>
        /\ \A f \in Ahead.flips :
              f \notin facts /\ Registered(f[2], f[3]) \in facts /\ Ready(f[3]) \in facts
        /\ Given("stablecoin") \in Ahead.gives => Upgraded \in facts

\* What must be in a script's name for it to deploy one of these, and what it comes after.
AfterCreation(c) ==
    {<<c.treasury, "mined">>, <<"Oracle_WSTETH_USD", c.treasury>>, <<c.vault, c.treasury>>}
AfterHandover == {<<"CoreMerkl", "">>}

Later == {"treasuryNewStable", "oracleNewStable", "vaultNewStable"}

Before ==
    [treasuryNewStable |-> "agTokenNewStable", oracleNewStable |-> "treasuryNewStable",
     vaultNewStable |-> "oracleNewStable", coreMerkl |-> "proxyAdminAngleLabs"]

\* A run starts none of the later scripts but after the one before, which has established
\* what it establishes by its second step.
Resumed ==
    /\ \A i \in 2..Len(queue) : queue[i] \in DOMAIN Before => queue[i - 1] = Before[queue[i]]
    /\ queue # << >> =>
          /\ Head(queue) \in Later => Created \in fresh
          /\ Head(queue) = "coreMerkl" => Given("ProxyAdminAngleLabs") \in fresh
          /\ Head(queue) = "agTokenNewStable" /\ pos >= 2 => Created \in fresh
          /\ Head(queue) = "proxyAdminAngleLabs" /\ pos >= 2 =>
                Given("ProxyAdminAngleLabs") \in fresh

QueueOK == queue # << >> => pos <= Len(Steps)

Inv ==
    /\ DeploymentTypeOK
    /\ Consistent(records, facts)
    /\ OneCrashARun
    /\ QueueOK
    /\ Armed
    /\ Resumed
-----------------------------------------------------------------------------
\* Steps, one by one.

LEMMA OneStep ==
    ASSUME NEW s
    PROVE  <<s>> \in Seq(Range(<<s>>)) /\ Len(<<s>>) = 1 /\ <<s>>[1] = s
<1>1. DOMAIN <<s>> = 1..1 /\ <<s>>[1] = s /\ Len(<<s>>) = 1
  OBVIOUS
<1>2. s \in Range(<<s>>)
  BY <1>1 DEF Range
<1> QED
  BY <1>1, <1>2

LEMMA StepIsScript ==
    ASSUME NEW X, NEW s, Safe(X, s), Alone(s)
    PROVE  Good(X, <<s>>)
  BY OneStep DEF Good, Ordered

LEMMA EmptyScript == ASSUME NEW X PROVE Good(X, << >>)
<1>1. << >> \in Seq(Range(<< >>)) /\ Len(<< >>) = 0
  OBVIOUS
<1> QED
  BY <1>1 DEF Good, Ordered

LEMMA GetIsGood == ASSUME NEW X, NEW names PROVE Good(X, Get(names))
<1> DEFINE s == [Nothing EXCEPT !.reads = names]
<1>1. s.deploys = {} /\ s.gives = {} /\ s.flips = {}
  BY DEF Nothing
<1>2. Safe(X, s) /\ Alone(s)
  BY <1>1 DEF Safe, SafeDeploys, SafeGives, SafeFlips, Alone
<1> QED
  BY <1>2, StepIsScript DEF Get

\* What is asked of what a step gives, without the step.
GivesSafely(needs, gives) ==
    /\ Given("stablecoin") \notin gives
    /\ \A f \in gives :
          /\ IsFact(f) /\ f[1] \notin {"Treasury_EUR", "not paused"}
          /\ f[1] = "registered" => Ready(f[3]) \in needs
          /\ f[1] = "its stablecoin is initialized" =>
                \/ Given("stablecoin") \in needs
                \/ f[2] = "Treasury_EUR" /\ <<"Treasury_EUR", "AgToken_EUR">> \in needs

LEMMA CallStep ==
    ASSUME NEW X, NEW needs, NEW bars, NEW gives, GivesSafely(needs, gives)
    PROVE  LET call == Call(needs, bars, gives)
           IN  call = <<call[1]>> /\ Safe(X, call[1]) /\ Alone(call[1])
<1> DEFINE s == [Nothing EXCEPT !.needs = needs, !.bars = bars, !.gives = gives]
<1>1. s.deploys = {} /\ s.needs = needs /\ s.gives = gives /\ s.flips = {}
  BY DEF Nothing
<1>2. Safe(X, s) /\ Alone(s)
  BY <1>1 DEF Safe, SafeDeploys, SafeGives, SafeFlips, Alone, GivesSafely
<1>3. Call(needs, bars, gives) = <<s>> /\ <<s>>[1] = s
  BY DEF Call
<1> QED
  BY <1>2, <1>3

LEMMA CallIsGood ==
    ASSUME NEW X, NEW needs, NEW bars, NEW gives, GivesSafely(needs, gives)
    PROVE  Good(X, Call(needs, bars, gives))
<1> DEFINE call == Call(needs, bars, gives)
<1>1. call = <<call[1]>> /\ Safe(X, call[1]) /\ Alone(call[1])
  BY CallStep
<1> HIDE DEF call
<1>2. Good(X, <<call[1]>>)
  BY <1>1, StepIsScript
<1>3. Good(X, call)
  BY <1>1, <1>2
<1> QED
  BY <1>3 DEF call

LEMMA DeployStep ==
    ASSUME NEW X, NEW name, NEW args, NEW needs, NEW gives,
           name \notin Sentences, <<name, args>> \notin X, GivesSafely(needs, gives)
    PROVE  /\ args # "mined" => Good(X, Deploy(name, args, needs, gives))
           /\ Good(X, Ensure(name, args, needs, gives))
           /\ \A names : Good(X, Unless(names, Ensure(name, args, needs, gives)))
<1> DEFINE d == [Nothing EXCEPT !.deploys = {<<name, args>>}, !.needs = needs, !.gives = gives]
           e == [d EXCEPT !.reuses = TRUE]
           u(names) == [e EXCEPT !.unless = names]
<1>1. ASSUME NEW s, s.deploys = {<<name, args>>}, s.needs = needs, s.gives = gives,
             s.flips = {}, s.reuses \/ args # "mined"
      PROVE  Good(X, <<s>>)
  <2>1. SafeDeploys(s) /\ s.deploys \intersect X = {}
    BY <1>1 DEF SafeDeploys, IsRecord
  <2>2. SafeGives(s) /\ SafeFlips(s) /\ Alone(s)
    BY <1>1 DEF SafeGives, SafeFlips, Alone, GivesSafely
  <2> QED
    BY <2>1, <2>2, StepIsScript DEF Safe
<1>2. args # "mined" => Good(X, <<d>>)
  <2>1. d.deploys = {<<name, args>>} /\ d.needs = needs /\ d.gives = gives /\ d.flips = {}
    BY DEF Nothing
  <2> QED
    BY <1>1, <2>1
<1>3. Good(X, <<e>>)
  <2>1. /\ e.deploys = {<<name, args>>} /\ e.needs = needs /\ e.gives = gives /\ e.flips = {}
        /\ e.reuses
    BY DEF Nothing
  <2> QED
    BY <1>1, <2>1
<1>4. ASSUME NEW names PROVE Good(X, <<u(names)>>)
  <2>1. /\ u(names).deploys = {<<name, args>>} /\ u(names).needs = needs
        /\ u(names).gives = gives /\ u(names).flips = {} /\ u(names).reuses
    BY DEF Nothing
  <2> QED
    BY <1>1, <2>1
<1>5. Deploy(name, args, needs, gives) = <<d>>
  BY DEF Deploy
<1>6. Ensure(name, args, needs, gives) = <<e>>
  BY <1>5 DEF Ensure
<1>7. \A names : Unless(names, Ensure(name, args, needs, gives)) = <<u(names)>>
  BY <1>6 DEF Unless
<1> QED
  BY <1>2, <1>3, <1>4, <1>5, <1>6, <1>7

-----------------------------------------------------------------------------
\* Scripts, put together.

\* What concatenation does, for sequences of whatever they hold.
LEMMA Concatenation ==
    ASSUME NEW s, NEW t, s \in Seq(Range(s)), t \in Seq(Range(t))
    PROVE  /\ s \o t \in Seq(Range(s \o t))
           /\ Len(s) \in Nat /\ Len(t) \in Nat /\ Len(s \o t) = Len(s) + Len(t)
           /\ \A i \in 1..Len(s) : (s \o t)[i] = s[i]
           /\ \A i \in 1..Len(t) : (s \o t)[Len(s) + i] = t[i]
<1> DEFINE S == Range(s) \union Range(t)
           u == s \o t
<1>1. s \in Seq(S) /\ t \in Seq(S)
  BY SeqMonotonic
<1>2. /\ u \in Seq(S) /\ Len(u) = Len(s) + Len(t) /\ Len(s) \in Nat /\ Len(t) \in Nat
      /\ \A i \in 1..Len(s) + Len(t) : u[i] = IF i <= Len(s) THEN s[i] ELSE t[i - Len(s)]
  BY <1>1, ConcatProperties, LenProperties
<1> HIDE DEF S, u
<1>3. DOMAIN u = 1..Len(u) /\ u \in [1..Len(u) -> S] /\ Len(u) \in Nat
  BY <1>2, LenProperties
<1>4. u \in Seq(Range(u))
  <2>1. u \in [1..Len(u) -> Range(u)]
    BY <1>3 DEF Range
  <2> QED
    BY <1>3, <2>1, SeqDef
<1>5. \A i \in 1..Len(s) : u[i] = s[i]
  BY <1>2
<1>6. \A i \in 1..Len(t) : u[Len(s) + i] = t[i]
  <2> SUFFICES ASSUME NEW i \in 1..Len(t) PROVE u[Len(s) + i] = t[i]
    OBVIOUS
  <2>1. Len(s) + i \in 1..Len(s) + Len(t) /\ ~(Len(s) + i <= Len(s)) /\ (Len(s) + i) - Len(s) = i
    BY <1>2
  <2> QED
    BY <1>2, <2>1
<1> QED
  BY <1>2, <1>4, <1>5, <1>6 DEF u
LEMMA ConcatIsGood ==
    ASSUME NEW X, NEW s, NEW t, Good(X, s), Good(X, t)
    PROVE  Good(X, s \o t)
<1> DEFINE u == s \o t
<1>1. /\ u \in Seq(Range(u))
      /\ Len(s) \in Nat /\ Len(t) \in Nat /\ Len(u) = Len(s) + Len(t)
      /\ \A i \in 1..Len(s) : u[i] = s[i]
      /\ \A i \in 1..Len(t) : u[Len(s) + i] = t[i]
  BY Concatenation DEF Good
<1> HIDE DEF u
<1>2. ASSUME NEW i \in 1..Len(u)
      PROVE  Safe(X, u[i]) /\ (Alone(u[i]) \/ (i > 1 /\ Leads(u[i - 1], u[i])))
  <2>1. CASE i <= Len(s)
    <3>1. i \in 1..Len(s) /\ (i > 1 => i - 1 \in 1..Len(s))
      BY <1>1, <2>1
    <3>2. u[i] = s[i] /\ (i > 1 => u[i - 1] = s[i - 1])
      BY <1>1, <3>1
    <3> QED
      BY <3>1, <3>2 DEF Good, Ordered
  <2>2. CASE i > Len(s)
    <3> DEFINE j == i - Len(s)
    <3>1. j \in 1..Len(t) /\ Len(s) + j = i /\ (j > 1 => j - 1 \in 1..Len(t))
      BY <1>1, <2>2
    <3>2. (j > 1 => i > 1 /\ Len(s) + (j - 1) = i - 1)
      BY <1>1, <2>2
    <3> HIDE DEF j
    <3>3. u[i] = t[j] /\ (j > 1 => u[i - 1] = t[j - 1])
      BY <1>1, <3>1, <3>2
    <3>4. Safe(X, t[j]) /\ (Alone(t[j]) \/ (j > 1 /\ Leads(t[j - 1], t[j])))
      BY <3>1 DEF Good, Ordered
    <3> QED
      BY <3>2, <3>3, <3>4
  <2> QED
    BY <1>1, <2>1, <2>2
<1>3. Good(X, u)
  BY <1>1, <1>2 DEF Good, Ordered
<1> QED
  BY <1>3 DEF u

LEMMA OneMore ==
    ASSUME NEW s, NEW x, s \in Seq(Range(s))
    PROVE  /\ s \o <<x>> \in Seq(Range(s \o <<x>>))
           /\ Len(s) \in Nat /\ Len(s \o <<x>>) = Len(s) + 1
           /\ \A i \in 1..Len(s) : (s \o <<x>>)[i] = s[i]
           /\ (s \o <<x>>)[Len(s) + 1] = x
<1> DEFINE S == Range(s) \union {x}
           u == s \o <<x>>
<1>1. s \in Seq(S) /\ x \in S
  BY SeqMonotonic
<1> HIDE DEF S
<1>2. Len(s) \in Nat
  BY <1>1, LenProperties
<1>3. /\ u \in Seq(S) /\ Len(u) = Len(s) + 1
      /\ \A i \in 1..Len(s) : u[i] = s[i]
      /\ u[Len(s) + 1] = x
  BY <1>1, <1>2
<1> HIDE DEF u
<1>4. DOMAIN u = 1..Len(u) /\ u \in [1..Len(u) -> S] /\ Len(u) \in Nat
  BY <1>3, LenProperties
<1>5. u \in [1..Len(u) -> Range(u)]
  BY <1>4 DEF Range
<1>6. u \in Seq(Range(u))
  BY <1>4, <1>5, SeqDef
<1> QED
  BY <1>2, <1>3, <1>6 DEF u

\* A step that must come after another, put after it.
LEMMA LedIsGood ==
    ASSUME NEW X, NEW s, NEW b, NEW f, Good(X, s),
           Safe(X, b), Alone(b), Safe(X, f), Leads(b, f)
    PROVE  Good(X, (s \o <<b>>) \o <<f>>)
<1> DEFINE r == s \o <<b>>
           u == r \o <<f>>
<1>1. Good(X, r)
  BY StepIsScript, ConcatIsGood
<1>2. Len(s) \in Nat /\ Len(r) = Len(s) + 1 /\ r[Len(s) + 1] = b
  BY OneMore DEF Good
<1> HIDE DEF r
<1>3. /\ u \in Seq(Range(u)) /\ Len(u) = Len(r) + 1
      /\ \A i \in 1..Len(r) : u[i] = r[i]
      /\ u[Len(r) + 1] = f
  BY <1>1, OneMore DEF Good
<1> HIDE DEF u
<1>4. ASSUME NEW i \in 1..Len(u)
      PROVE  Safe(X, u[i]) /\ (Alone(u[i]) \/ (i > 1 /\ Leads(u[i - 1], u[i])))
  <2>1. CASE i <= Len(r)
    <3>1. i \in 1..Len(r) /\ (i > 1 => i - 1 \in 1..Len(r))
      BY <1>2, <1>3, <2>1
    <3>2. u[i] = r[i] /\ (i > 1 => u[i - 1] = r[i - 1])
      BY <1>3, <3>1
    <3> QED
      BY <1>1, <3>1, <3>2 DEF Good, Ordered
  <2>2. CASE i = Len(r) + 1
    <3>1. i > 1 /\ i - 1 = Len(r) /\ Len(r) \in 1..Len(r) /\ Len(r) = Len(s) + 1
      BY <1>2, <2>2
    <3>2. u[i] = f /\ u[i - 1] = b
      BY <1>2, <1>3, <2>2, <3>1
    <3> QED
      BY <3>1, <3>2
  <2> QED
    BY <1>2, <1>3, <2>1, <2>2
<1>5. Good(X, u)
  BY <1>3, <1>4 DEF Good, Ordered
<1> QED
  BY <1>5 DEF u, r

LEMMA WhenIsGood ==
    ASSUME NEW X, NEW condition, NEW steps, condition => Good(X, steps)
    PROVE  Good(X, When(condition, steps))
  BY EmptyScript DEF When
-----------------------------------------------------------------------------
\* The scripts.

LEMMA GivesNothing == ASSUME NEW needs PROVE GivesSafely(needs, {})
  BY DEF GivesSafely

Checked == {"Treasury_EUR", "not paused", "registered", "its stablecoin is initialized"}

LEMMA GivesOther ==
    ASSUME NEW needs, NEW kind, kind \notin Checked, NEW b, NEW c
    PROVE  /\ (kind # "given to governance" \/ b # "stablecoin") =>
                 GivesSafely(needs, {<<kind, b>>})
           /\ GivesSafely(needs, {<<kind, b, c>>})
<1>1. <<kind, b, c>> # Given("stablecoin")
  BY DEF Given
<1>2. ASSUME NEW f, IsFact(f), f[1] = kind, f # Given("stablecoin")
      PROVE  GivesSafely(needs, {f})
  BY <1>2 DEF GivesSafely, Checked
<1>3. IsFact(<<kind, b>>) /\ IsFact(<<kind, b, c>>)
  BY DEF IsFact
<1>4. <<kind, b>>[1] = kind /\ <<kind, b, c>>[1] = kind
  OBVIOUS
<1>5. ASSUME kind # "given to governance" \/ b # "stablecoin" PROVE <<kind, b>> # Given("stablecoin")
  BY <1>5 DEF Given
<1> QED
  BY <1>1, <1>2, <1>3, <1>4, <1>5

Special(c) == AfterCreation(c) \union AfterHandover

LEMMA NotSpecial ==
    ASSUME NEW c, NEW name, NEW args, args # "mined",
           args = c.treasury => name \notin {"Oracle_WSTETH_USD", c.vault},
           args = "" => name # "CoreMerkl"
    PROVE  <<name, args>> \notin Special(c)
  BY DEF Special, AfterCreation, AfterHandover

LEMMA ConfigNames ==
    ASSUME NEW c \in Configs
    PROVE  /\ {c.treasury, c.bridge, c.vault} \intersect Sentences = {}
           /\ c.treasury \notin {"", "mined", "registry", "AgToken_EUR", "Mock_MockTreasury"}
           /\ c.vault \notin {c.bridge, "LayerZeroBridge_EUR", "Oracle_STEUR_ETH"}
           /\ c.bridge # "Oracle_WSTETH_USD"
  BY NamesAssumption

\* A contract that is deployed with no arguments that matter, and gives nothing.
LEMMA ContractIsGood ==
    ASSUME NEW c \in Configs, NEW name, name \notin Sentences, name # "CoreMerkl"
    PROVE  /\ Good(Special(c), Deploy(name, "", {}, {}))
           /\ Good(Special(c), Implementation(name))
           /\ Good(Special(c), EnsureContract(name))
           /\ Good(Special(c), EnsureImplementation(name))
           /\ \A names : Good(Special(c), Unless(names, EnsureImplementation(name)))
<1>1. <<name, "">> \notin Special(c)
  BY NotSpecial, ConfigNames
<1>2. GivesSafely({}, {})
  BY GivesNothing
<1>3. /\ Good(Special(c), Deploy(name, "", {}, {})) /\ Good(Special(c), Ensure(name, "", {}, {}))
      /\ \A names : Good(Special(c), Unless(names, Ensure(name, "", {}, {})))
  BY <1>1, <1>2, DeployStep
<1> QED
  BY <1>3 DEF Implementation, EnsureContract, EnsureImplementation

LEMMA RegisterStep ==
    ASSUME NEW X, NEW vault, NEW treasury
    PROVE  LET register == Register(vault, treasury)
           IN  register = <<register[1]>> /\ Safe(X, register[1]) /\ Alone(register[1])
<1> DEFINE needs == {Governed(treasury), Ready(treasury)}
           gives == {Registered(vault, treasury)}
<1>1. GivesSafely(needs, gives)
  <2>1. /\ Registered(vault, treasury)[1] = "registered"
        /\ Registered(vault, treasury)[3] = treasury
        /\ Registered(vault, treasury) # Given("stablecoin")
        /\ IsFact(Registered(vault, treasury))
    BY DEF Registered, Given, IsFact
  <2> QED
    BY <2>1 DEF GivesSafely
<1>2. Register(vault, treasury) = Call(needs, gives, gives)
  BY DEF Register
<1> QED
  BY <1>1, <1>2, CallStep

LEMMA OpenStep ==
    ASSUME NEW X, NEW vault, NEW treasury
    PROVE  LET open == Flip({Governed(treasury)}, Open(vault, treasury))
           IN  open = <<open[1]>> /\ Safe(X, open[1]) /\ Leads(Register(vault, treasury)[1], open[1])
<1> DEFINE s == [Nothing EXCEPT !.needs = {Governed(treasury)}, !.flips = {Open(vault, treasury)}]
<1>1. s.deploys = {} /\ s.gives = {} /\ s.flips = {Open(vault, treasury)}
  BY DEF Nothing
<1>2. Open(vault, treasury)[2] = vault /\ Open(vault, treasury)[3] = treasury
  BY DEF Open
<1>3. Safe(X, s)
  BY <1>1, <1>2 DEF Safe, SafeDeploys, SafeGives, SafeFlips
<1>4. Leads(Register(vault, treasury)[1], s)
  BY <1>1, <1>2 DEF Leads
<1>5. Flip({Governed(treasury)}, Open(vault, treasury)) = <<s>> /\ <<s>>[1] = s
  BY DEF Flip
<1> QED
  BY <1>3, <1>4, <1>5
LEMMA VaultManagerStepsAreGood ==
    ASSUME NEW X, NEW c \in Configs, NEW treasury, treasury # "mined",
           <<c.vault, treasury>> \notin X
    PROVE  Good(X, VaultManagerSteps(c, treasury))
<1> DEFINE deploy == Deploy(c.vault, treasury, {<<c.oracle, treasury>>}, {})
           begin == Get({c.oracle}) \o deploy
           register == Register(c.vault, treasury)
           open == Flip({Governed(treasury)}, Open(c.vault, treasury))
           opened == (begin \o register) \o open
           fees == Call({Governed(treasury)}, {}, {FeesSet(c.vault, treasury)})
           dusts == Call({Governed(treasury)}, {}, {DustsSet(c.vault, treasury)})
<1>1. Good(X, begin)
  <2>1. Good(X, Get({c.oracle}))
    BY GetIsGood
  <2>2. Good(X, deploy)
    BY ConfigNames, GivesNothing, DeployStep
  <2> QED
    BY <2>1, <2>2, ConcatIsGood
<1>2. Good(X, opened)
  <2>1. register = <<register[1]>> /\ Safe(X, register[1]) /\ Alone(register[1])
    BY RegisterStep
  <2>2. open = <<open[1]>> /\ Safe(X, open[1]) /\ Leads(register[1], open[1])
    BY OpenStep
  <2> HIDE DEF begin, register, open
  <2>3. Good(X, (begin \o <<register[1]>>) \o <<open[1]>>)
    BY <1>1, <2>1, <2>2, LedIsGood
  <2> QED
    BY <2>1, <2>2, <2>3
<1>3. Good(X, fees) /\ Good(X, dusts)
  <2>1. "fees set" \notin Checked /\ "dusts set" \notin Checked
    BY DEF Checked
  <2>2. /\ GivesSafely({Governed(treasury)}, {FeesSet(c.vault, treasury)})
        /\ GivesSafely({Governed(treasury)}, {DustsSet(c.vault, treasury)})
    BY <2>1, GivesOther DEF FeesSet, DustsSet
  <2> QED
    BY <2>2, CallIsGood
<1>4. Good(X, When(c.fees, fees)) /\ Good(X, When(c.dusts, dusts))
  BY <1>3, WhenIsGood
<1>5. Good(X, (opened \o When(c.fees, fees)) \o When(c.dusts, dusts))
  <2> HIDE DEF opened, fees, dusts
  <2> QED
    BY <1>2, <1>4, ConcatIsGood
<1> QED
  BY <1>5 DEF VaultManagerSteps

-----------------------------------------------------------------------------
\* deploy/newStable.

LEMMA CoreNewStableIsGood == ASSUME NEW c \in Configs PROVE Good(Special(c), CoreNewStable)
<1>1. Good(Special(c), EnsureImplementation("CoreBorrow_Implementation"))
  BY ContractIsGood DEF Sentences
<1>2. Good(Special(c), Deploy("CoreBorrowTest", "", {}, {Governed("CoreBorrowTest")}))
  <2>1. GivesSafely({}, {Governed("CoreBorrowTest")})
    BY GivesOther DEF Governed, Checked
  <2>2. <<"CoreBorrowTest", "">> \notin Special(c) /\ "CoreBorrowTest" \notin Sentences
    BY NotSpecial, ConfigNames DEF Sentences
  <2> QED
    BY <2>1, <2>2, DeployStep
<1> QED
  BY <1>1, <1>2, ConcatIsGood DEF CoreNewStable

\* The one script that hands the proxy over, after having upgraded it.
LEMMA AgTokenNewStableIsGood ==
    ASSUME NEW c \in Configs, NEW n
    PROVE  Good(Special(c), AgTokenNewStable(n))
<1> DEFINE name == IF OnMainnet(n) THEN "AgToken_Implementation"
                   ELSE "AgTokenSideChainMultiBridge_Implementation"
           begin == Implementation(name) \o Create2
<1>1. Good(Special(c), begin)
  <2>1. Good(Special(c), Implementation(name))
    BY ContractIsGood DEF Sentences
  <2>2. GivesSafely({}, {Created})
    BY GivesOther DEF Created, Checked
  <2>3. Good(Special(c), Create2)
    BY <2>2, CallIsGood DEF Create2
  <2> QED
    BY <2>1, <2>3, ConcatIsGood
<1>2. UpgradeTo = <<UpgradeTo[1]>> /\ Safe(Special(c), UpgradeTo[1]) /\ Alone(UpgradeTo[1])
  <2>1. GivesSafely({Created}, {Upgraded})
    BY GivesOther DEF Upgraded, Checked
  <2> QED
    BY <2>1, CallStep DEF UpgradeTo
<1>3. /\ ChangeAdmin = <<ChangeAdmin[1]>> /\ Safe(Special(c), ChangeAdmin[1])
      /\ Leads(UpgradeTo[1], ChangeAdmin[1])
  <2> DEFINE s == [Nothing EXCEPT !.needs = {Created}, !.bars = {Given("stablecoin")},
                                  !.gives = {Given("stablecoin")}]
  <2>1. s.deploys = {} /\ s.gives = {Given("stablecoin")} /\ s.flips = {}
    BY DEF Nothing
  <2>2. /\ IsFact(Given("stablecoin"))
        /\ Given("stablecoin")[1] = "given to governance"
    BY DEF Given, IsFact
  <2>3. Safe(Special(c), s)
    BY <2>1, <2>2 DEF Safe, SafeDeploys, SafeGives, SafeFlips
  <2>4. Leads(UpgradeTo[1], s)
    BY <2>1 DEF Leads
  <2>5. ChangeAdmin = <<s>> /\ <<s>>[1] = s
    BY DEF ChangeAdmin, Call
  <2> QED
    BY <2>3, <2>4, <2>5
<1>4. Good(Special(c), (begin \o UpgradeTo) \o ChangeAdmin)
  <2> HIDE DEF begin
  <2>1. Good(Special(c), (begin \o <<UpgradeTo[1]>>) \o <<ChangeAdmin[1]>>)
    BY <1>1, <1>2, <1>3, LedIsGood
  <2> QED
    BY <1>2, <1>3, <2>1
<1> QED
  BY <1>4 DEF AgTokenNewStable
\* The three scripts that deploy what the creation must precede.
LEMMA FewerIsGood ==
    ASSUME NEW X, NEW Y, X \subseteq Y, NEW steps, Good(Y, steps)
    PROVE  Good(X, steps)
  BY DEF Good, Safe

LEMMA TreasuryNewStableIsGood ==
    ASSUME NEW c \in Configs
    PROVE  Good(AfterHandover, TreasuryNewStable(c))
<1> DEFINE X == AfterHandover
           needs == {Upgraded, Given("stablecoin"), <<c.treasury, "mined">>}
           ensure == Ensure(c.treasury, "mined", {}, {Governed(c.treasury)})
           call == Call(needs, {Ready(c.treasury)}, {Ready(c.treasury)})
<1>1. Good(X, Get({"CoreBorrowTest"}))
  BY GetIsGood
<1>2. Good(X, EnsureImplementation("Treasury_Implementation"))
  <2>1. Good(Special(c), EnsureImplementation("Treasury_Implementation"))
    BY ContractIsGood DEF Sentences
  <2> QED
    BY <2>1, FewerIsGood DEF Special
<1>3. Good(X, ensure)
  <2>1. GivesSafely({}, {Governed(c.treasury)})
    BY GivesOther DEF Governed, Checked
  <2>2. <<c.treasury, "mined">> \notin X
    BY DEF AfterHandover
  <2> QED
    BY <2>1, <2>2, ConfigNames, DeployStep
<1>4. Good(X, call)
  <2>1. /\ IsFact(Ready(c.treasury)) /\ Ready(c.treasury)[1] = "its stablecoin is initialized"
        /\ Ready(c.treasury) # Given("stablecoin")
    BY DEF IsFact, Ready, Given
  <2>2. GivesSafely(needs, {Ready(c.treasury)})
    BY <2>1 DEF GivesSafely
  <2> QED
    BY <2>2, CallIsGood
<1>5. Good(X, ((Get({"CoreBorrowTest"}) \o EnsureImplementation("Treasury_Implementation"))
                  \o ensure) \o call)
  <2> HIDE DEF ensure, call
  <2> QED
    BY <1>1, <1>2, <1>3, <1>4, ConcatIsGood
<1> QED
  BY <1>5 DEF TreasuryNewStable

LEMMA OracleNewStableIsGood ==
    ASSUME NEW c \in Configs, NEW n
    PROVE  Good(AfterHandover, OracleNewStable(n, c))
<1>1. <<"Oracle_WSTETH_USD", c.treasury>> \notin AfterHandover /\ "Oracle_WSTETH_USD" \notin Sentences
  BY DEF AfterHandover, Sentences
<1>2. Good(AfterHandover, Deploy("Oracle_WSTETH_USD", c.treasury, {}, {}))
  BY <1>1, ConfigNames, GivesNothing, DeployStep
<1>3. Good(AfterHandover, Get({c.treasury}) \o Deploy("Oracle_WSTETH_USD", c.treasury, {}, {}))
  BY <1>2, GetIsGood, ConcatIsGood
<1> QED
  BY <1>3, WhenIsGood DEF OracleNewStable

LEMMA VaultNewStableIsGood ==
    ASSUME NEW c \in Configs, NEW n
    PROVE  Good(AfterHandover, VaultNewStable(n, c))
<1> DEFINE ensure == EnsureImplementation("VaultManager_NoDust")
           steps == VaultManagerSteps(c, c.treasury)
<1>1. Good(AfterHandover, ensure)
  <2>1. Good(Special(c), ensure)
    BY ContractIsGood DEF Sentences
  <2> QED
    BY <2>1, FewerIsGood DEF Special
<1>2. Good(AfterHandover, steps)
  <2>1. <<c.vault, c.treasury>> \notin AfterHandover
    BY ConfigNames DEF AfterHandover
  <2> QED
    BY <2>1, ConfigNames, VaultManagerStepsAreGood
<1>3. Good(AfterHandover, (ensure \o Get({c.treasury})) \o steps)
  <2> HIDE DEF ensure, steps
  <2> QED
    BY <1>1, <1>2, GetIsGood, ConcatIsGood
<1> QED
  BY <1>3, WhenIsGood DEF VaultNewStable

\* A bridge is deployed under a name that no other contract of the stablecoin has.
LEMMA BridgeIsGood ==
    ASSUME NEW c \in Configs
    PROVE  Good(Special(c), Ensure(c.bridge, c.treasury, {}, {}))
<1>1. <<c.bridge, c.treasury>> \notin Special(c)
  BY ConfigNames, NotSpecial
<1> QED
  BY <1>1, ConfigNames, GivesNothing, DeployStep

LEMMA LzBridgeNewStableIsGood ==
    ASSUME NEW c \in Configs, NEW n
    PROVE  Good(Special(c), LzBridgeNewStable(n, c))
<1> DEFINE ensure == Unless({"LayerZeroBridge"}, EnsureImplementation("LayerZeroBridge_Implementation"))
           bridge == Ensure(c.bridge, c.treasury, {}, {})
<1>1. Good(Special(c), ensure)
  BY ContractIsGood DEF Sentences
<1>2. Good(Special(c), bridge)
  BY BridgeIsGood
<1>3. Good(Special(c), (Get({c.treasury}) \o ensure) \o bridge)
  <2> HIDE DEF ensure, bridge
  <2> QED
    BY <1>1, <1>2, GetIsGood, ConcatIsGood
<1> QED
  BY <1>3, WhenIsGood DEF LzBridgeNewStable

LEMMA LzBridgeTokenNewStableIsGood ==
    ASSUME NEW c \in Configs, NEW n
    PROVE  Good(Special(c), LzBridgeTokenNewStable(n, c))
<1> DEFINE X == Special(c)
           ensure == EnsureImplementation("LayerZeroBridgeToken_V1_0_Implementation")
           bridge == Ensure(c.bridge, c.treasury, {}, {})
           params == Call({Governed(c.treasury)}, {}, {AdapterParams(c.bridge)})
           needs == {Governed(c.treasury), Ready(c.treasury)}
           support == Call(needs, {Supported(c.bridge)}, {Supported(c.bridge)})
<1>1. Good(X, ensure)
  BY ContractIsGood DEF Sentences
<1>2. Good(X, bridge)
  BY BridgeIsGood
<1>3. Good(X, params)
  <2>1. GivesSafely({Governed(c.treasury)}, {AdapterParams(c.bridge)})
    BY GivesOther DEF AdapterParams, Checked
  <2> QED
    BY <2>1, CallIsGood
<1>4. Good(X, support)
  <2>1. GivesSafely(needs, {Supported(c.bridge)})
    BY GivesOther DEF Supported, Checked
  <2> QED
    BY <2>1, CallIsGood
<1>5. Good(X, (((Get({c.treasury}) \o ensure) \o bridge) \o params) \o support)
  <2> HIDE DEF X, ensure, bridge, params, support
  <2> QED
    BY <1>1, <1>2, <1>3, <1>4, GetIsGood, ConcatIsGood
<1> QED
  BY <1>5, WhenIsGood DEF LzBridgeTokenNewStable

LEMMA LzSetupNewStableIsGood ==
    ASSUME NEW c \in Configs
    PROVE  Good(Special(c), LzSetupNewStable(c))
<1> DEFINE needs == {Governed(c.treasury), <<c.bridge, c.treasury>>}
           steps == LzSetupNewStable(c)
<1>1. \A remote : LET call == Call(needs, {}, {Trusts(c.bridge, remote)})[1]
                  IN  Safe(Special(c), call) /\ Alone(call)
  <2> SUFFICES ASSUME NEW remote
               PROVE  LET call == Call(needs, {}, {Trusts(c.bridge, remote)})[1]
                      IN  Safe(Special(c), call) /\ Alone(call)
    OBVIOUS
  <2>1. GivesSafely(needs, {Trusts(c.bridge, remote)})
    BY GivesOther DEF Trusts, Checked
  <2> QED
    BY <2>1, CallStep
<1>2. Remotes \in Seq(Range(Remotes))
  BY DeploymentAssumption
<1>3. DOMAIN Remotes = 1..Len(Remotes) /\ Len(Remotes) \in Nat
  BY <1>2, LenProperties
<1>4. /\ steps \in [1..Len(Remotes) -> Range(steps)]
      /\ \A i \in 1..Len(Remotes) : steps[i] = Call(needs, {}, {Trusts(c.bridge, Remotes[i])})[1]
  BY <1>3 DEF LzSetupNewStable, Range
<1> HIDE DEF steps
<1>5. steps \in Seq(Range(steps)) /\ Len(steps) = Len(Remotes)
  <2>1. steps \in Seq(Range(steps))
    BY <1>3, <1>4, SeqDef
  <2>2. DOMAIN steps = 1..Len(Remotes) /\ DOMAIN steps = 1..Len(steps) /\ Len(steps) \in Nat
    BY <1>4, <2>1, LenProperties
  <2> QED
    BY <1>3, <2>1, <2>2
<1>6. \A i \in 1..Len(steps) : Safe(Special(c), steps[i]) /\ Alone(steps[i])
  <2> HIDE DEF needs
  <2> QED
    BY <1>1, <1>4, <1>5
<1>7. Good(Special(c), steps)
  BY <1>5, <1>6 DEF Good, Ordered
<1> QED
  BY <1>7 DEF steps
-----------------------------------------------------------------------------
\* The other scripts.

LEMMA OtherIsGood ==
    ASSUME NEW c \in Configs, NEW name, NEW args, name \notin Sentences, args # "mined",
           args = c.treasury => name \notin {"Oracle_WSTETH_USD", c.vault},
           args = "" => name # "CoreMerkl"
    PROVE  /\ Good(Special(c), Deploy(name, args, {}, {}))
           /\ Good(Special(c), Ensure(name, args, {}, {}))
  BY NotSpecial, GivesNothing, DeployStep

LEMMA ThrowsIsGood == ASSUME NEW X PROVE Good(X, Throws)
  BY GetIsGood DEF Throws

LEMMA OracleScriptIsGood == ASSUME NEW c \in Configs PROVE Good(Special(c), OracleScript)
<1>1. /\ Good(Special(c), Deploy("Oracle_HIGH_EUR", "registry", {}, {}))
      /\ Good(Special(c), Deploy("Oracle_IB01_EUR", "registry", {}, {}))
  BY OtherIsGood, ConfigNames DEF Sentences
<1> QED
  BY <1>1, ConcatIsGood DEF OracleScript

LEMMA VaultManagerProxyIsGood ==
    ASSUME NEW c \in Configs, NEW n
    PROVE  Good(Special(c), VaultManagerProxy(n, c))
<1>1. <<c.vault, "registry">> \notin Special(c)
  BY NotSpecial, ConfigNames
<1>2. Good(Special(c), VaultManagerSteps(c, "registry"))
  BY <1>1, VaultManagerStepsAreGood
<1>3. Good(Special(c), When(n.live, Get({"ProxyAdmin"})))
  BY GetIsGood, WhenIsGood
<1> QED
  BY <1>2, <1>3, ConcatIsGood DEF VaultManagerProxy

LEMMA ProxyAdminScriptIsGood == ASSUME NEW c \in Configs PROVE Good(Special(c), ProxyAdminScript)
<1>1. Good(Special(c), Implementation("governor"))
  BY ContractIsGood DEF Sentences
<1> QED
  BY <1>1, ThrowsIsGood, ConcatIsGood DEF ProxyAdminScript

LEMMA SwapperScriptIsGood == ASSUME NEW c \in Configs PROVE Good(Special(c), SwapperScript)
<1>1. Good(Special(c), Deploy("Swapper", "", {}, {}))
  BY ContractIsGood DEF Sentences
<1> QED
  BY <1>1, ThrowsIsGood, ConcatIsGood DEF SwapperScript

LEMMA CoreBorrowScriptIsGood == ASSUME NEW c \in Configs PROVE Good(Special(c), CoreBorrowScript)
<1> DEFINE implementation == Implementation("CoreBorrow_Implementation")
           deploy == Deploy("CoreBorrow", "", {}, {})
<1>1. Good(Special(c), implementation) /\ Good(Special(c), deploy)
  BY ContractIsGood DEF Sentences
<1>2. Good(Special(c), (Get({"ProxyAdmin"}) \o implementation) \o deploy)
  <2> HIDE DEF implementation, deploy
  <2> QED
    BY <1>1, GetIsGood, ConcatIsGood
<1> QED
  BY <1>2 DEF CoreBorrowScript

LEMMA AgTokenImplementationIsGood ==
    ASSUME NEW c \in Configs
    PROVE  Good(Special(c), AgTokenImplementation)
<1> DEFINE implementation == Implementation("AgTokenSideChainMultiBridge_Implementation")
           deploy == Deploy("AgToken_EUR", "", {}, {})
<1>1. Good(Special(c), implementation) /\ Good(Special(c), deploy)
  BY ContractIsGood DEF Sentences
<1>2. Good(Special(c), (Get({"ProxyAdmin"}) \o implementation) \o deploy)
  <2> HIDE DEF implementation, deploy
  <2> QED
    BY <1>1, GetIsGood, ConcatIsGood
<1> QED
  BY <1>2 DEF AgTokenImplementation

\* The other script that initializes a treasury, that of AgToken_EUR.
LEMMA TreasuryScriptIsGood ==
    ASSUME NEW c \in Configs, NEW n
    PROVE  Good(Special(c), TreasuryScript(n))
<1> DEFINE X == Special(c)
           whenSide == When(~OnMainnet(n), Get({"ProxyAdmin", "CoreBorrow"}))
           implementation == EnsureImplementation("Treasury_Implementation")
           proxy == Ensure("Treasury_EUR", "AgToken_EUR", {}, {})
           needs == {<<"Treasury_EUR", "AgToken_EUR">>}
           call == Call(needs, {Ready("Treasury_EUR")}, {Ready("Treasury_EUR")})
<1>1. Good(X, whenSide)
  BY GetIsGood, WhenIsGood
<1>2. Good(X, implementation)
  BY ContractIsGood DEF Sentences
<1>3. Good(X, proxy)
  BY OtherIsGood, ConfigNames DEF Sentences
<1>4. Good(X, call)
  <2>1. /\ IsFact(Ready("Treasury_EUR")) /\ Ready("Treasury_EUR")[1] = "its stablecoin is initialized"
        /\ Ready("Treasury_EUR")[2] = "Treasury_EUR" /\ Ready("Treasury_EUR") # Given("stablecoin")
    BY DEF IsFact, Ready, Given
  <2>2. GivesSafely(needs, {Ready("Treasury_EUR")})
    BY <2>1 DEF GivesSafely
  <2> QED
    BY <2>2, CallIsGood
<1>5. Good(X, (((Get({"AgToken_EUR"}) \o whenSide) \o implementation) \o proxy) \o call)
  <2> HIDE DEF X, whenSide, implementation, proxy, call
  <2> QED
    BY <1>1, <1>2, <1>3, <1>4, GetIsGood, ConcatIsGood
<1> QED
  BY <1>5 DEF TreasuryScript

LEMMA ProxyAdminAngleLabsIsGood ==
    ASSUME NEW c \in Configs
    PROVE  Good(Special(c), ProxyAdminAngleLabs)
<1> DEFINE given == {Given("ProxyAdminAngleLabs")}
<1>1. Good(Special(c), Implementation("ProxyAdminAngleLabs"))
  BY ContractIsGood DEF Sentences
<1>2. GivesSafely({}, given)
  BY GivesOther DEF Given, Checked
<1>3. Good(Special(c), Call({}, given, given))
  BY <1>2, CallIsGood
<1> QED
  BY <1>1, <1>3, ConcatIsGood DEF ProxyAdminAngleLabs

\* The one script that deploys CoreMerkl.
LEMMA CoreMerklIsGood == ASSUME NEW c \in Configs PROVE Good(AfterCreation(c), CoreMerkl)
<1> DEFINE X == AfterCreation(c)
           implementation == Implementation("CoreBorrow_Implementation")
           deploy == Deploy("CoreMerkl", "", {}, {})
<1>1. Good(X, implementation)
  <2>1. Good(Special(c), implementation)
    BY ContractIsGood DEF Sentences
  <2> QED
    BY <2>1, FewerIsGood DEF Special
<1>2. Good(X, deploy)
  <2>1. <<"CoreMerkl", "">> \notin X /\ "CoreMerkl" \notin Sentences
    BY ConfigNames DEF AfterCreation, Sentences
  <2> QED
    BY <2>1, GivesNothing, DeployStep
<1>3. Good(X, (Get({"ProxyAdminAngleLabs"}) \o implementation) \o deploy)
  <2> HIDE DEF X, implementation, deploy
  <2> QED
    BY <1>1, <1>2, GetIsGood, ConcatIsGood
<1> QED
  BY <1>3 DEF CoreMerkl

LEMMA FlashAngleIsGood ==
    ASSUME NEW c \in Configs, NEW n
    PROVE  Good(Special(c), FlashAngleScript(n)) /\ Good(Special(c), FlashAngleGovernance(n))
<1> DEFINE X == Special(c)
           whenLive == When(n.live, Get({"ProxyAdmin"}))
           implementation == EnsureImplementation("FlashAngle_Implementation")
           deploy == Deploy("FlashAngle", "", {}, {})
           whenToken == When(n.live, Get({"AgToken_EUR"}))
           set == Call({}, {}, {<<"flash loan module", "FlashAngle">>})
           add == Call({}, {}, {<<"flash loaner", "Treasury">>})
           params == Call({<<"flash loaner", "Treasury">>}, {}, {<<"parameters set", "FlashAngle">>})
<1>1. Good(X, whenLive) /\ Good(X, whenToken)
  BY GetIsGood, WhenIsGood
<1>2. Good(X, implementation) /\ Good(X, deploy)
  BY ContractIsGood DEF Sentences
<1>3. Good(X, set) /\ Good(X, add) /\ Good(X, params)
  <2>1. \A needs : /\ GivesSafely(needs, {<<"flash loan module", "FlashAngle">>})
                   /\ GivesSafely(needs, {<<"flash loaner", "Treasury">>})
                   /\ GivesSafely(needs, {<<"parameters set", "FlashAngle">>})
    BY GivesOther DEF Checked
  <2> QED
    BY <2>1, CallIsGood
<1>4. Good(X, ((whenLive \o implementation) \o Get({"CoreBorrow"})) \o deploy)
  <2> HIDE DEF X, whenLive, implementation, deploy
  <2> QED
    BY <1>1, <1>2, GetIsGood, ConcatIsGood
<1>5. Good(X, ((((Throws \o whenToken) \o Get({"Treasury", "CoreBorrow", "FlashAngle"})) \o set)
                  \o add) \o params)
  <2> HIDE DEF X, whenToken, set, add, params
  <2> QED
    BY <1>1, <1>3, ThrowsIsGood, GetIsGood, ConcatIsGood
<1> QED
  BY <1>4, <1>5 DEF FlashAngleScript, FlashAngleGovernance

LEMMA KeepersAreGood ==
    ASSUME NEW c \in Configs
    PROVE  /\ Good(Special(c), KeeperMulticall) /\ Good(Special(c), KeeperRegistry)
           /\ Good(Special(c), MulticallWithFailure) /\ Good(Special(c), AngleHelpers)
           /\ Good(Special(c), NewOracle) /\ Good(Special(c), MockTokenScript)
<1>1. Good(Special(c), KeeperMulticall)
  BY ContractIsGood, ConcatIsGood DEF Sentences, KeeperMulticall
<1>2. Good(Special(c), KeeperRegistry)
  BY ContractIsGood, ConcatIsGood DEF Sentences, KeeperRegistry
<1>3. Good(Special(c), MulticallWithFailure)
  BY ContractIsGood DEF Sentences, MulticallWithFailure
<1>4. Good(Special(c), AngleHelpers)
  BY ContractIsGood, ConcatIsGood DEF Sentences, AngleHelpers
<1>5. Good(Special(c), NewOracle)
  BY OtherIsGood, ConfigNames DEF Sentences, NewOracle
<1>6. Good(Special(c), MockTokenScript)
  <2>1. Good(Special(c), Deploy("MockEUR", "", {}, {}))
    BY ContractIsGood DEF Sentences
  <2> QED
    BY <2>1, GetIsGood, ConcatIsGood DEF MockTokenScript
<1> QED
  BY <1>1, <1>2, <1>3, <1>4, <1>5, <1>6
LEMMA LayerZeroScriptsAreGood ==
    ASSUME NEW c \in Configs, NEW n
    PROVE  /\ Good(Special(c), LayerZeroBridgeScript(n))
           /\ Good(Special(c), LayerZeroBridgeTokenScript)
<1> DEFINE X == Special(c)
           whenSide == When(~OnMainnet(n), Throws)
           implementation == EnsureImplementation("LayerZeroBridge_Implementation")
           bridge == Ensure("LayerZeroBridge_EUR", "Treasury", {}, {})
           tokenImplementation == Implementation("LayerZeroBridgeToken_V1_0_Implementation")
           tokenBridge == Ensure("LayerZeroBridge_EUR", "Treasury_EUR", {}, {})
<1>1. Good(X, whenSide)
  BY ThrowsIsGood, WhenIsGood
<1>2. Good(X, implementation) /\ Good(X, tokenImplementation)
  BY ContractIsGood DEF Sentences
<1>3. Good(X, bridge) /\ Good(X, tokenBridge)
  BY OtherIsGood, ConfigNames DEF Sentences
<1>4. Good(X, ((whenSide \o Get({"Treasury", "ProxyAdmin"})) \o implementation) \o bridge)
  <2> HIDE DEF X, whenSide, implementation, bridge
  <2> QED
    BY <1>1, <1>2, <1>3, GetIsGood, ConcatIsGood
<1>5. Good(X, (tokenImplementation \o Get({"Treasury_EUR", "ProxyAdmin"})) \o tokenBridge)
  <2> HIDE DEF X, tokenImplementation, tokenBridge
  <2> QED
    BY <1>2, <1>3, GetIsGood, ConcatIsGood
<1> QED
  BY <1>4, <1>5 DEF LayerZeroBridgeScript, LayerZeroBridgeTokenScript

LEMMA MockLayerZeroBridgeTokenIsGood ==
    ASSUME NEW c \in Configs
    PROVE  Good(Special(c), MockLayerZeroBridgeToken)
<1> DEFINE X == Special(c)
           treasury == "Mock_MockTreasury"
           agToken == "Mock_AgTokenSideChainMultiBridge"
           bridge == "Mock_LayerZeroBridgeToken"
           s1 == EnsureContract(treasury)
           s2 == EnsureImplementation("Mock_AgTokenSideChainMultiBridge_Implementation")
           s3 == Unless({agToken}, Call({}, {}, {<<"expects", treasury>>}))
           s4 == Ensure(agToken, treasury, {<<"expects", treasury>>}, {})
           s5 == EnsureImplementation("Mock_LayerZeroBridgeToken_Implementation")
           s6 == Ensure(bridge, treasury, {}, {})
           s7 == Call({}, {Supported(bridge)}, {Supported(bridge)})
           s8 == Call({}, {}, {<<"minter", agToken>>})
           s9 == Call({<<"minter", agToken>>}, {}, {<<"minted", agToken>>})
<1>1. Good(X, s1) /\ Good(X, s2) /\ Good(X, s5)
  BY ContractIsGood DEF Sentences
<1>2. Good(X, s3)
  <2> DEFINE r == [Nothing EXCEPT !.needs = {}, !.bars = {}, !.gives = {<<"expects", treasury>>}]
             s == [r EXCEPT !.unless = {agToken}]
  <2>1. s.deploys = {} /\ s.gives = {<<"expects", treasury>>} /\ s.flips = {}
    BY DEF Nothing
  <2>2. GivesSafely({}, {<<"expects", treasury>>})
    BY GivesOther DEF Checked
  <2>3. Safe(X, s) /\ Alone(s)
    BY <2>1, <2>2 DEF Safe, SafeDeploys, SafeGives, SafeFlips, Alone, GivesSafely
  <2>4. s3 = <<s>>
    <3>1. Call({}, {}, {<<"expects", treasury>>}) = <<r>>
      BY DEF Call
    <3>2. <<r>>[1] = r
      OBVIOUS
    <3> HIDE DEF r
    <3> QED
      BY <3>1, <3>2 DEF Unless
  <2> HIDE DEF s, s3
  <2> QED
    BY <2>3, <2>4, StepIsScript
<1>3. Good(X, s4) /\ Good(X, s6)
  <2>1. /\ <<agToken, treasury>> \notin X /\ <<bridge, treasury>> \notin X
        /\ agToken \notin Sentences /\ bridge \notin Sentences
    BY NotSpecial, ConfigNames DEF Sentences
  <2> QED
    BY <2>1, GivesNothing, DeployStep
<1>4. Good(X, s7) /\ Good(X, s8) /\ Good(X, s9)
  <2>1. \A needs : /\ GivesSafely(needs, {Supported(bridge)})
                   /\ GivesSafely(needs, {<<"minter", agToken>>})
                   /\ GivesSafely(needs, {<<"minted", agToken>>})
    BY GivesOther DEF Supported, Checked
  <2> QED
    BY <2>1, CallIsGood
<1>5. Good(X, (((((((s1 \o s2) \o s3) \o s4) \o s5) \o s6) \o s7) \o s8) \o s9)
  <2> HIDE DEF X, s1, s2, s3, s4, s5, s6, s7, s8, s9
  <2> QED
    BY <1>1, <1>2, <1>3, <1>4, ConcatIsGood
<1> QED
  BY <1>5 DEF MockLayerZeroBridgeToken

LEMMA AddGovernorIsGood == ASSUME NEW c \in Configs PROVE Good(Special(c), AddGovernor)
<1> DEFINE gives == {<<"governed by governance", "CoreBorrowTest">>}
<1>1. GivesSafely({Governed("CoreBorrowTest")}, gives)
  BY GivesOther DEF Checked
<1>2. Good(Special(c), Call({Governed("CoreBorrowTest")}, {}, gives))
  BY <1>1, CallIsGood
<1> QED
  BY <1>2, GetIsGood, ConcatIsGood DEF AddGovernor

-----------------------------------------------------------------------------
\* Every script is safe, and only the scripts that follow its creation deploy what must
\* follow the stablecoin's.

Followers(c, tag) ==
    IF tag \in Later THEN AfterHandover
    ELSE IF tag = "coreMerkl" THEN AfterCreation(c) ELSE Special(c)

LEMMA TagsAndScripts ==
    ASSUME NEW n \in Networks, NEW c \in Configs
    PROVE  LET all == Scripts[n][c]
           IN  /\ DOMAIN all = {"coreNewStable", "agTokenNewStable", "treasuryNewStable",
                                "oracleNewStable", "vaultNewStable", "lzBridgeNewStable",
                                "lzBridgeTokenNewStable", "lzSetupNewStable", "oracle",
                                "vaultManagerImplementation", "vaultManagerProxy", "swapper",
                                "proxyAdmin", "coreBorrow", "agTokenImplementation",
                                "treasury", "proxyAdminAngleLabs", "coreMerkl", "flashAngle",
                                "flashAngleGovernance", "keeper_multicall", "keeperRegistry",
                                "multicall_with_failure", "angleHelpers", "newOracle",
                                "mockToken", "LayerZeroBridge", "LayerZeroBridgeToken",
                                "mockLayerZeroBridgeToken", "LayerZeroSources", "addGovernor"}
               /\ all.coreNewStable = CoreNewStable
               /\ all.agTokenNewStable = AgTokenNewStable(n)
               /\ all.treasuryNewStable = TreasuryNewStable(c)
               /\ all.oracleNewStable = OracleNewStable(n, c)
               /\ all.vaultNewStable = VaultNewStable(n, c)
               /\ all.lzBridgeNewStable = LzBridgeNewStable(n, c)
               /\ all.lzBridgeTokenNewStable = LzBridgeTokenNewStable(n, c)
               /\ all.lzSetupNewStable = LzSetupNewStable(c)
               /\ all.oracle = OracleScript
               /\ all.vaultManagerImplementation = VaultManagerImplementation
               /\ all.vaultManagerProxy = VaultManagerProxy(n, c)
               /\ all.swapper = SwapperScript
               /\ all.proxyAdmin = ProxyAdminScript
               /\ all.coreBorrow = CoreBorrowScript
               /\ all.agTokenImplementation = AgTokenImplementation
               /\ all.treasury = TreasuryScript(n)
               /\ all.proxyAdminAngleLabs = ProxyAdminAngleLabs
               /\ all.coreMerkl = CoreMerkl
               /\ all.flashAngle = FlashAngleScript(n)
               /\ all.flashAngleGovernance = FlashAngleGovernance(n)
               /\ all.keeper_multicall = KeeperMulticall
               /\ all.keeperRegistry = KeeperRegistry
               /\ all.multicall_with_failure = MulticallWithFailure
               /\ all.angleHelpers = AngleHelpers
               /\ all.newOracle = NewOracle
               /\ all.mockToken = MockTokenScript
               /\ all.LayerZeroBridge = LayerZeroBridgeScript(n)
               /\ all.LayerZeroBridgeToken = LayerZeroBridgeTokenScript
               /\ all.mockLayerZeroBridgeToken = MockLayerZeroBridgeToken
               /\ all.LayerZeroSources = Prints
               /\ all.addGovernor = AddGovernor
<1> DEFINE all == Scripts[n][c]
<1>1. all = ScriptsFor(n, c)
  BY DEF Scripts
<1> HIDE DEF all
<1> QED
  BY <1>1 DEF ScriptsFor, all

LEMMA ScriptsAreGood ==
    ASSUME NEW n \in Networks, NEW c \in Configs, NEW tag \in DOMAIN Scripts[n][c]
    PROVE  Good(Followers(c, tag), Scripts[n][c][tag])
<1> DEFINE all == Scripts[n][c]
<1>1. /\ Good(Special(c), all.coreNewStable)
      /\ Good(Special(c), all.agTokenNewStable)
      /\ Good(Special(c), all.lzBridgeNewStable)
      /\ Good(Special(c), all.lzBridgeTokenNewStable)
      /\ Good(Special(c), all.lzSetupNewStable)
  BY TagsAndScripts, CoreNewStableIsGood, AgTokenNewStableIsGood, LzBridgeNewStableIsGood,
     LzBridgeTokenNewStableIsGood, LzSetupNewStableIsGood
<1>2. /\ Good(AfterHandover, all.treasuryNewStable)
      /\ Good(AfterHandover, all.oracleNewStable)
      /\ Good(AfterHandover, all.vaultNewStable)
  BY TagsAndScripts, TreasuryNewStableIsGood, OracleNewStableIsGood, VaultNewStableIsGood
<1>3. /\ Good(Special(c), all.oracle)
      /\ Good(Special(c), all.vaultManagerImplementation)
      /\ Good(Special(c), all.vaultManagerProxy)
      /\ Good(Special(c), all.swapper)
  BY TagsAndScripts, OracleScriptIsGood, ContractIsGood, VaultManagerProxyIsGood,
     SwapperScriptIsGood DEF VaultManagerImplementation, Sentences
<1>4. /\ Good(Special(c), all.proxyAdmin)
      /\ Good(Special(c), all.coreBorrow)
      /\ Good(Special(c), all.agTokenImplementation)
      /\ Good(Special(c), all.treasury)
      /\ Good(Special(c), all.proxyAdminAngleLabs)
  BY TagsAndScripts, ProxyAdminScriptIsGood, CoreBorrowScriptIsGood, AgTokenImplementationIsGood,
     TreasuryScriptIsGood, ProxyAdminAngleLabsIsGood
<1>5. /\ Good(AfterCreation(c), all.coreMerkl)
  BY TagsAndScripts, CoreMerklIsGood
<1>6. /\ Good(Special(c), all.flashAngle)
      /\ Good(Special(c), all.flashAngleGovernance)
      /\ Good(Special(c), all.keeper_multicall)
      /\ Good(Special(c), all.keeperRegistry)
      /\ Good(Special(c), all.multicall_with_failure)
      /\ Good(Special(c), all.angleHelpers)
      /\ Good(Special(c), all.newOracle)
      /\ Good(Special(c), all.mockToken)
  BY TagsAndScripts, FlashAngleIsGood, KeepersAreGood
<1>7. /\ Good(Special(c), all.LayerZeroBridge)
      /\ Good(Special(c), all.LayerZeroBridgeToken)
      /\ Good(Special(c), all.mockLayerZeroBridgeToken)
      /\ Good(Special(c), all.LayerZeroSources)
      /\ Good(Special(c), all.addGovernor)
  BY TagsAndScripts, LayerZeroScriptsAreGood, MockLayerZeroBridgeTokenIsGood, EmptyScript,
     AddGovernorIsGood DEF Prints
<1>8. CASE tag \in Later
  BY <1>2, <1>8 DEF Followers, Later
<1>9. CASE tag = "coreMerkl"
  BY <1>5, <1>9 DEF Followers, Later
<1>10. CASE tag \notin Later /\ tag # "coreMerkl"
  <2>1. Followers(c, tag) = Special(c)
    BY <1>10 DEF Followers
  <2>2. tag \in DOMAIN all \ {"treasuryNewStable", "oracleNewStable", "vaultNewStable", "coreMerkl"}
    BY <1>10 DEF Later
  <2> HIDE DEF all
  <2>3. Good(Special(c), all[tag])
    BY <2>2, <1>1, <1>3, <1>4, <1>6, <1>7, TagsAndScripts DEF all
  <2> QED
    BY <2>1, <2>3 DEF all
<1> QED
  BY <1>8, <1>9, <1>10
\* What the invariant needs of a script, whichever it is.
LEMMA EveryScript ==
    ASSUME NEW n \in Networks, NEW c \in Configs, NEW tag \in DOMAIN Scripts[n][c]
    PROVE  LET steps == Scripts[n][c][tag]
           IN  /\ Len(steps) \in Nat
               /\ \A i \in 1..Len(steps) : Safe(Followers(c, tag), steps[i])
               /\ 0 < Len(steps) => Alone(steps[1])
               /\ \A i \in 2..Len(steps) : Alone(steps[i]) \/ Leads(steps[i - 1], steps[i])
<1> DEFINE steps == Scripts[n][c][tag]
<1>1. Good(Followers(c, tag), steps)
  BY ScriptsAreGood
<1> HIDE DEF steps
<1>2. Len(steps) \in Nat
  BY <1>1, LenProperties DEF Good
<1>3. \A i \in 1..Len(steps) : Safe(Followers(c, tag), steps[i])
  BY <1>1 DEF Good
<1>4. \A i \in 1..Len(steps) : Alone(steps[i]) \/ (i > 1 /\ Leads(steps[i - 1], steps[i]))
  BY <1>1 DEF Good, Ordered
<1>5. 0 < Len(steps) => Alone(steps[1])
  BY <1>2, <1>4
<1>6. \A i \in 2..Len(steps) : Alone(steps[i]) \/ Leads(steps[i - 1], steps[i])
  BY <1>2, <1>4
<1> QED
  BY <1>2, <1>3, <1>5, <1>6 DEF steps

LEMMA SecondOfMore ==
    ASSUME NEW s, NEW x, s \in Seq(Range(s)), Len(s) >= 2
    PROVE  LET u == s \o <<x>>
           IN  u \in Seq(Range(u)) /\ Len(u) = Len(s) + 1 /\ u[2] = s[2]
<1> DEFINE u == s \o <<x>>
<1>1. /\ u \in Seq(Range(u)) /\ Len(s) \in Nat /\ Len(u) = Len(s) + 1
      /\ \A i \in 1..Len(s) : u[i] = s[i]
  BY OneMore
<1> HIDE DEF u
<1>2. 2 \in 1..Len(s)
  BY <1>1
<1> QED
  BY <1>1, <1>2 DEF u

LEMMA TwoSteps ==
    ASSUME NEW a, NEW b
    PROVE  LET s == <<a>> \o <<b>>
           IN  s \in Seq(Range(s)) /\ Len(s) = 2 /\ s[2] = b
<1> DEFINE one == <<a>>
           s == one \o <<b>>
<1>1. one \in Seq(Range(one)) /\ Len(one) = 1
  BY OneStep
<1> HIDE DEF one
<1>2. s \in Seq(Range(s)) /\ Len(s) = Len(one) + 1 /\ s[Len(one) + 1] = b
  BY <1>1, OneMore
<1> HIDE DEF s
<1>3. s \in Seq(Range(s)) /\ Len(s) = 2 /\ s[2] = b
  BY <1>1, <1>2
<1> QED
  BY <1>3 DEF s, one

\* Two scripts have established by their second step what the next ones rely on.
LEMMA AgTokenSecond ==
    ASSUME NEW n
    PROVE  Len(AgTokenNewStable(n)) = 4 /\ AgTokenNewStable(n)[2] = Create2[1]
<1> DEFINE name == IF OnMainnet(n) THEN "AgToken_Implementation"
                   ELSE "AgTokenSideChainMultiBridge_Implementation"
<1>1. PICK a, b, d, e : /\ Implementation(name) = <<a>> /\ Create2 = <<b>>
                        /\ UpgradeTo = <<d>> /\ ChangeAdmin = <<e>>
  BY DEF Implementation, Deploy, Create2, UpgradeTo, ChangeAdmin, Call
<1>2. AgTokenNewStable(n) = ((<<a>> \o <<b>>) \o <<d>>) \o <<e>>
  BY <1>1 DEF AgTokenNewStable
<1> DEFINE s == <<a>> \o <<b>>
           t == s \o <<d>>
           u == t \o <<e>>
<1>3. s \in Seq(Range(s)) /\ Len(s) = 2 /\ s[2] = b
  BY TwoSteps
<1> HIDE DEF s
<1>4. t \in Seq(Range(t)) /\ Len(t) = Len(s) + 1 /\ t[2] = s[2]
  <2>1. s \in Seq(Range(s)) /\ Len(s) >= 2
    BY <1>3
  <2> QED
    BY <2>1, SecondOfMore
<1> HIDE DEF t
<1>5. Len(u) = Len(t) + 1 /\ u[2] = t[2]
  <2>1. Len(t) >= 2
    BY <1>3, <1>4
  <2> QED
    BY <1>4, <2>1, SecondOfMore
<1>6. Create2[1] = b
  BY <1>1
<1>7. AgTokenNewStable(n) = u
  BY <1>2 DEF s, t
<1> HIDE DEF u
<1> QED
  BY <1>3, <1>4, <1>5, <1>6, <1>7

LEMMA ProxyAdminSecond ==
    /\ Len(ProxyAdminAngleLabs) = 2
    /\ LET given == {Given("ProxyAdminAngleLabs")}
       IN  ProxyAdminAngleLabs[2] = Call({}, given, given)[1]
<1> DEFINE given == {Given("ProxyAdminAngleLabs")}
<1>1. PICK a, b : /\ Implementation("ProxyAdminAngleLabs") = <<a>>
                  /\ Call({}, given, given) = <<b>>
  BY DEF Implementation, Deploy, Call
<1>2. ProxyAdminAngleLabs = <<a>> \o <<b>>
  BY <1>1 DEF ProxyAdminAngleLabs
<1>3. Len(<<a>> \o <<b>>) = 2 /\ (<<a>> \o <<b>>)[2] = b
  BY TwoSteps
<1>4. Call({}, given, given)[1] = b
  BY <1>1
<1> QED
  BY <1>2, <1>3, <1>4

\* What a tag depends on runs before it.
LEMMA Dependencies ==
    ASSUME NEW n \in Networks, NEW c \in Configs, NEW tag \in DOMAIN Scripts[n][c]
    PROVE  LET q == WithDependencies(tag)
           IN  /\ q \in Seq(DOMAIN Scripts[n][c])
               /\ \A i \in 1..Len(q) : q[i] \in DOMAIN Before => i > 1 /\ q[i - 1] = Before[q[i]]
<1> DEFINE T == DOMAIN Scripts[n][c]
           q == WithDependencies(tag)
           P(s) == \A i \in 1..Len(s) : s[i] \in DOMAIN Before => i > 1 /\ s[i - 1] = Before[s[i]]
<1>1. /\ {"coreNewStable", "agTokenNewStable", "treasuryNewStable", "oracleNewStable",
           "vaultNewStable", "lzBridgeNewStable"} \subseteq T
      /\ {"oracle", "vaultManagerProxy", "proxyAdmin", "coreBorrow", "proxyAdminAngleLabs",
           "coreMerkl", "flashAngle", "flashAngleGovernance"} \subseteq T
  BY TagsAndScripts
<1> HIDE DEF T
<1>2. /\ NewStable \in Seq(T) /\ Len(NewStable) = 6 /\ DOMAIN NewStable = 1..6
      /\ P(NewStable)
  BY <1>1 DEF NewStable, Before
<1>3. CASE tag \in Range(NewStable)
  <2> DEFINE k == CHOOSE i \in DOMAIN NewStable : NewStable[i] = tag
  <2>1. k \in 1..6
    BY <1>2, <1>3 DEF Range
  <2>2. q = SubSeq(NewStable, 1, k)
    BY <1>3 DEF WithDependencies
  <2> HIDE DEF k, q
  <2>3. q \in Seq(T) /\ Len(q) = k /\ \A i \in 1..k : q[i] = NewStable[i]
    BY <1>2, <2>1, <2>2
  <2>4. P(q)
    BY <1>2, <2>1, <2>3
  <2> QED
    BY <2>3, <2>4 DEF q, T
<1>4. CASE tag \notin Range(NewStable) /\ \E p \in Pairs : p[2] = tag
  <2>1. q \in Pairs
    BY <1>4 DEF WithDependencies
  <2>2. \A p \in Pairs : p \in Seq(T) /\ P(p)
    <3> DEFINE a == <<"oracle", "vaultManagerProxy">>
               b == <<"proxyAdmin", "coreBorrow">>
               d == <<"proxyAdminAngleLabs", "coreMerkl">>
               e == <<"flashAngle", "flashAngleGovernance">>
    <3>1. a \in Seq(T) /\ P(a)
      BY <1>1 DEF Before
    <3>2. b \in Seq(T) /\ P(b)
      BY <1>1 DEF Before
    <3>3. d \in Seq(T) /\ P(d)
      BY <1>1 DEF Before
    <3>4. e \in Seq(T) /\ P(e)
      BY <1>1 DEF Before
    <3>5. Pairs = {a, b, d, e}
      BY DEF Pairs
    <3> HIDE DEF a, b, d, e, P
    <3> QED
      BY <3>1, <3>2, <3>3, <3>4, <3>5
  <2> QED
    BY <2>1, <2>2 DEF T
<1>5. CASE tag \notin Range(NewStable) /\ ~ \E p \in Pairs : p[2] = tag
  <2>1. q = <<tag>>
    BY <1>5 DEF WithDependencies
  <2>2. tag \notin DOMAIN Before
    <3>1. \A i \in 1..6 : NewStable[i] # tag
      BY <1>2, <1>5 DEF Range
    <3>2. tag \notin {"treasuryNewStable", "oracleNewStable", "vaultNewStable"}
      BY <3>1 DEF NewStable
    <3>3. tag # "coreMerkl"
      BY <1>5 DEF Pairs
    <3> QED
      BY <3>2, <3>3 DEF Before
  <2>3. q \in Seq(T) /\ P(q)
    <3>1. tag \in T
      BY DEF T
    <3> QED
      BY <2>1, <2>2, <3>1
  <2> QED
    BY <2>3 DEF T
<1> QED
  BY <1>3, <1>4, <1>5
-----------------------------------------------------------------------------
\* The invariant, step by step.

LEMMA InvInit == DeploymentInit => Inv
<1> SUFFICES ASSUME DeploymentInit PROVE Inv
  OBVIOUS
<1>1. queue = << >> /\ fresh = {} /\ pos = 0 /\ runs = 0 /\ crashes = 0
  BY DEF DeploymentInit
<1>2. network \in Networks /\ config \in Configs
  BY DEF DeploymentInit
<1>3. Consistent(records, facts)
  BY StartsAssumption DEF DeploymentInit
<1>4. MaxRuns \in Nat
  BY DeploymentAssumption
<1>5. DeploymentTypeOK
  <2>1. queue \in Seq(DOMAIN Scripts[network][config])
    BY <1>1, EmptySeq
  <2>2. fresh \subseteq facts /\ pos \in Nat /\ runs \in 0..MaxRuns /\ crashes \in 0..MaxRuns
    BY <1>1, <1>4
  <2> QED
    BY <1>2, <1>3, <2>1, <2>2 DEF DeploymentTypeOK, Consistent
<1>6. QueueOK /\ Armed /\ Resumed /\ OneCrashARun
  BY <1>1 DEF QueueOK, Armed, Resumed, OneCrashARun
<1> QED
  BY <1>3, <1>5, <1>6 DEF Inv

\* The script that runs.
LEMMA RunningScript ==
    ASSUME Inv, queue # << >>
    PROVE  /\ Head(queue) \in DOMAIN Scripts[network][config]
           /\ Len(Steps) \in Nat /\ pos \in 0..Len(Steps)
           /\ \A i \in 1..Len(Steps) : Safe(Followers(config, Head(queue)), Steps[i])
           /\ 0 < Len(Steps) => Alone(Steps[1])
           /\ \A i \in 2..Len(Steps) : Alone(Steps[i]) \/ Leads(Steps[i - 1], Steps[i])
<1> DEFINE T == DOMAIN Scripts[network][config]
<1>1. network \in Networks /\ config \in Configs /\ queue \in Seq(T) /\ pos \in Nat
  BY DEF Inv, DeploymentTypeOK
<1> HIDE DEF T
<1>2. Head(queue) \in T
  BY <1>1, HeadTailProperties
<1>3. /\ Len(Steps) \in Nat
      /\ \A i \in 1..Len(Steps) : Safe(Followers(config, Head(queue)), Steps[i])
      /\ 0 < Len(Steps) => Alone(Steps[1])
      /\ \A i \in 2..Len(Steps) : Alone(Steps[i]) \/ Leads(Steps[i - 1], Steps[i])
  BY <1>1, <1>2, EveryScript DEF Steps, T
<1>4. pos <= Len(Steps)
  BY DEF Inv, QueueOK
<1> QED
  BY <1>1, <1>2, <1>3, <1>4 DEF T

\* A run that starts, and a script that follows another, start with a step that needs none
\* before it.
LEMMA FirstStepIsArmed ==
    ASSUME NEW q, NEW n \in Networks, NEW c \in Configs, q \in Seq(DOMAIN Scripts[n][c]), q # << >>
    PROVE  LET steps == Scripts[n][c][Head(q)]
           IN  /\ 0 <= Len(steps)
               /\ 0 < Len(steps) =>
                     steps[1].flips = {} /\ Given("stablecoin") \notin steps[1].gives
<1> DEFINE T == DOMAIN Scripts[n][c]
<1>1. Head(q) \in T
  <2>1. q \in Seq(T)
    OBVIOUS
  <2> HIDE DEF T
  <2> QED
    BY <2>1, HeadTailProperties
<1>2. PICK tag \in T : tag = Head(q)
  BY <1>1
<1>3. /\ Len(Scripts[n][c][tag]) \in Nat
      /\ 0 < Len(Scripts[n][c][tag]) => Alone(Scripts[n][c][tag][1])
  BY EveryScript
<1> QED
  BY <1>2, <1>3 DEF Alone

LEMMA StartRunKeepsInv ==
    ASSUME Inv, NEW tag \in OpenTags, StartRun(tag)
    PROVE  Inv'
<1> DEFINE T == DOMAIN Scripts[network][config]
<1>1. /\ queue = << >> /\ runs < MaxRuns /\ queue' = WithDependencies(tag) /\ pos' = 0
      /\ runs' = runs + 1
      /\ UNCHANGED <<network, config, records, facts, crashes, fresh>>
  BY DEF StartRun
<1>2. network \in Networks /\ config \in Configs /\ MaxRuns \in Nat
  BY DeploymentAssumption DEF Inv, DeploymentTypeOK
<1>3. tag \in T
  BY <1>2, TagsAssumption
<1>4. /\ queue' \in Seq(T)
      /\ \A i \in 1..Len(queue') : queue'[i] \in DOMAIN Before =>
            i > 1 /\ queue'[i - 1] = Before[queue'[i]]
  BY <1>1, <1>2, <1>3, Dependencies
<1>5. runs \in 0..MaxRuns /\ crashes \in 0..MaxRuns
  BY DEF Inv, DeploymentTypeOK
<1>6. DeploymentTypeOK'
  BY <1>1, <1>2, <1>4, <1>5 DEF Inv, DeploymentTypeOK
<1>7. Consistent(records, facts)'
  BY <1>1 DEF Inv
<1>8. OneCrashARun'
  BY <1>1, <1>5 DEF Inv, OneCrashARun
<1>9. QueueOK' /\ Armed'
  <2>1. CASE queue' = << >>
    BY <2>1 DEF QueueOK, Armed
  <2>2. CASE queue' # << >>
    <3>1. /\ 0 <= Len(Steps')
          /\ 0 < Len(Steps') =>
                Steps'[1].flips = {} /\ Given("stablecoin") \notin Steps'[1].gives
      BY <1>1, <1>2, <1>4, <2>2, FirstStepIsArmed DEF Steps
    <3> QED
      BY <1>1, <3>1 DEF QueueOK, Armed, Ahead
  <2> QED
    BY <2>1, <2>2
<1>10. Resumed'
  <2>1. Len(queue') \in Nat /\ \A i \in 2..Len(queue') : i \in 1..Len(queue')
    BY <1>4, LenProperties
  <2>2. ASSUME queue' # << >> PROVE Head(queue') \notin DOMAIN Before
    <3>1. Len(queue') >= 1 /\ Head(queue') = queue'[1]
      BY <1>4, <2>1, <2>2
    <3> QED
      BY <1>4, <3>1, <2>1
  <2>3. Later \subseteq DOMAIN Before /\ "coreMerkl" \in DOMAIN Before
    BY DEF Later, Before
  <2> QED
    BY <1>1, <1>4, <2>1, <2>2, <2>3 DEF Resumed
<1> QED
  BY <1>6, <1>7, <1>8, <1>9, <1>10 DEF Inv

LEMMA StopKeepsInv ==
    ASSUME Inv, Throw \/ Crash
    PROVE  Inv'
<1>1. /\ queue # << >> /\ queue' = << >> /\ pos' = 0 /\ fresh' = {}
      /\ UNCHANGED <<network, config, records, facts, runs>>
      /\ crashes' \in {crashes, crashes + 1}
  BY DEF Throw, Crash, Stop
<1>2. runs \in 0..MaxRuns /\ crashes \in 0..MaxRuns /\ MaxRuns \in Nat /\ crashes + 1 <= runs
  BY <1>1, DeploymentAssumption DEF Inv, DeploymentTypeOK, OneCrashARun
<1>3. DeploymentTypeOK'
  <2>1. queue' \in Seq(DOMAIN Scripts[network'][config'])
    BY <1>1, EmptySeq
  <2>2. crashes' \in 0..MaxRuns
    BY <1>1, <1>2
  <2> QED
    BY <1>1, <2>1, <2>2 DEF Inv, DeploymentTypeOK
<1>4. Consistent(records, facts)'
  BY <1>1 DEF Inv
<1>5. OneCrashARun' /\ QueueOK' /\ Armed'
  <2>1. crashes' + 0 <= runs'
    <3>1. crashes' = crashes \/ crashes' = crashes + 1
      BY <1>1
    <3>2. runs' = runs
      BY <1>1
    <3> QED
      BY <1>2, <3>1, <3>2
  <2>2. OneCrashARun'
    BY <1>1, <2>1 DEF OneCrashARun
  <2>3. QueueOK' /\ Armed'
    BY <1>1 DEF QueueOK, Armed
  <2> QED
    BY <2>2, <2>3
<1>6. Resumed'
  <2>1. Len(queue') = 0
    BY <1>1
  <2>2. 2..Len(queue') = {}
    BY <2>1
  <2> QED
    BY <1>1, <2>2 DEF Resumed
<1> QED
  BY <1>3, <1>4, <1>5, <1>6 DEF Inv

LEMMA NextScriptKeepsInv ==
    ASSUME Inv, NextScript
    PROVE  Inv'
<1> DEFINE T == DOMAIN Scripts[network][config]
<1>1. /\ queue # << >> /\ pos = Len(Steps) /\ queue' = Tail(queue) /\ pos' = 0
      /\ fresh' = IF Len(queue) = 1 THEN {} ELSE fresh
      /\ UNCHANGED <<network, config, records, facts, runs, crashes>>
  BY DEF NextScript
<1>2. /\ network \in Networks /\ config \in Configs /\ queue \in Seq(T)
      /\ fresh \subseteq facts /\ runs \in 0..MaxRuns /\ crashes \in 0..MaxRuns
  BY DEF Inv, DeploymentTypeOK
<1>3. /\ queue' \in Seq(T) /\ Len(queue') = Len(queue) - 1 /\ Len(queue') \in Nat
      /\ Len(queue) \in Nat /\ Head(queue) = queue[1]
      /\ \A i \in 1..Len(queue') : queue'[i] = queue[i + 1]
  <2> HIDE DEF T
  <2>1. Head(queue) = queue[1]
    BY <1>1, <1>2
  <2> QED
    BY <1>1, <1>2, <2>1, HeadTailProperties, LenProperties
<1>4. DeploymentTypeOK'
  BY <1>1, <1>3 DEF Inv, DeploymentTypeOK
<1>5. Consistent(records, facts)'
  BY <1>1 DEF Inv
<1>6. OneCrashARun'
  BY <1>1, <1>2 DEF Inv, OneCrashARun
<1>7. QueueOK' /\ Armed'
  <2>1. CASE queue' = << >>
    BY <2>1 DEF QueueOK, Armed
  <2>2. CASE queue' # << >>
    <3>1. /\ 0 <= Len(Steps')
          /\ 0 < Len(Steps') =>
                Steps'[1].flips = {} /\ Given("stablecoin") \notin Steps'[1].gives
      BY <1>1, <1>2, <1>3, <2>2, FirstStepIsArmed DEF Steps
    <3> QED
      BY <1>1, <3>1 DEF QueueOK, Armed, Ahead
  <2> QED
    BY <2>1, <2>2
<1>8. Resumed'
  <2>1. \A i \in 2..Len(queue') :
           queue'[i] \in DOMAIN Before => queue'[i - 1] = Before[queue'[i]]
    <3> SUFFICES ASSUME NEW i \in 2..Len(queue'), queue'[i] \in DOMAIN Before
                 PROVE  queue'[i - 1] = Before[queue'[i]]
      OBVIOUS
    <3>1. /\ i \in 1..Len(queue') /\ i - 1 \in 1..Len(queue') /\ i + 1 \in 2..Len(queue)
          /\ (i - 1) + 1 = i /\ (i + 1) - 1 = i
      BY <1>3
    <3>2. queue'[i] = queue[i + 1] /\ queue'[i - 1] = queue[i]
      BY <1>3, <3>1
    <3> QED
      BY <3>1, <3>2 DEF Inv, Resumed
  <2>2. ASSUME queue' # << >>
        PROVE  /\ Head(queue') \in Later => Created \in fresh'
               /\ Head(queue') = "coreMerkl" => Given("ProxyAdminAngleLabs") \in fresh'
    <3>1. Len(queue') >= 1 /\ Len(queue) # 1 /\ Head(queue') = queue[2] /\ 2 \in 2..Len(queue)
      <4>1. Len(queue') >= 1 /\ Head(queue') = queue'[1]
        <5> HIDE DEF T
        <5> QED
          BY <1>3, <2>2
      <4> QED
        BY <1>3, <4>1
    <3>2. fresh' = fresh
      BY <1>1, <3>1
    <3>3. queue[2] \in DOMAIN Before => Head(queue) = Before[queue[2]]
      BY <1>3, <3>1 DEF Inv, Resumed
    <3>4. /\ Head(queue) \in Later => Created \in fresh
          /\ Head(queue) = "agTokenNewStable" /\ pos >= 2 => Created \in fresh
          /\ Head(queue) = "proxyAdminAngleLabs" /\ pos >= 2 =>
                Given("ProxyAdminAngleLabs") \in fresh
      BY <1>1 DEF Inv, Resumed
    <3>5. Head(queue) = "agTokenNewStable" => pos = 4
      BY <1>1, <1>2, TagsAndScripts, AgTokenSecond DEF Steps
    <3>6. Head(queue) = "proxyAdminAngleLabs" => pos = 2
      BY <1>1, <1>2, TagsAndScripts, ProxyAdminSecond DEF Steps
    <3>7. queue[2] \in Later => Head(queue) \in Later \union {"agTokenNewStable"}
      BY <3>3 DEF Later, Before
    <3>8. queue[2] = "coreMerkl" => Head(queue) = "proxyAdminAngleLabs"
      BY <3>3 DEF Before
    <3> QED
      BY <3>1, <3>2, <3>4, <3>5, <3>6, <3>7, <3>8
  <2> QED
    BY <1>1, <2>1, <2>2 DEF Resumed
<1> QED
  BY <1>4, <1>5, <1>6, <1>7, <1>8 DEF Inv

\* What a step changes.  It pauses nothing that was open, because what it would open is not.
LEMMA StepEffect ==
    ASSUME Inv, DoStep
    PROVE  /\ queue # << >> /\ pos \in Nat /\ pos + 1 \in 1..Len(Steps)
           /\ Safe(Followers(config, Head(queue)), Ahead) /\ Possible(Ahead)
           /\ pos' = pos + 1 /\ UNCHANGED <<network, config, queue, runs, crashes>>
           /\ Steps' = Steps
           /\ facts \subseteq facts' /\ fresh' = fresh \union (facts' \ facts)
           /\ \/ records' = records /\ facts' = facts
              \/ /\ ~Skipped(Ahead)
                 /\ records' = NewRecords(Ahead)
                 /\ facts' = facts \union Ahead.gives \union Ahead.flips
           /\ ~Skipped(Ahead) => facts' = facts \union Ahead.gives \union Ahead.flips
<1>1. queue # << >> /\ pos < Len(Steps) /\ Possible(Ahead)
  BY DEF DoStep, Ahead
<1>2. /\ pos' = pos + 1 /\ UNCHANGED <<network, config, queue, runs, crashes>>
      /\ IF Skipped(Ahead)
         THEN UNCHANGED <<records, facts, fresh>>
         ELSE /\ records' = NewRecords(Ahead)
              /\ facts' = NewFacts(Ahead)
              /\ fresh' = fresh \union (facts' \ facts)
  BY DEF DoStep, Ahead
<1>3. Steps' = Steps
  BY <1>2 DEF Steps
<1>4. pos \in Nat /\ pos + 1 \in 1..Len(Steps)
  <2>1. pos \in 0..Len(Steps) /\ Len(Steps) \in Nat
    BY <1>1, RunningScript
  <2> QED
    BY <1>1, <2>1
<1>5. Safe(Followers(config, Head(queue)), Ahead)
  BY <1>1, <1>4, RunningScript DEF Ahead
<1>6. Ahead.flips \intersect facts = {}
  BY <1>1 DEF Inv, Armed
<1>7. NewFacts(Ahead) = facts \union Ahead.gives \union Ahead.flips
  BY <1>6 DEF NewFacts
<1>8. fresh' = fresh \union (facts' \ facts)
  BY <1>2
<1> QED
  BY <1>1, <1>2, <1>3, <1>4, <1>5, <1>7, <1>8

\* A step that is safe and whose needs are met leaves what it finds consistent.
LEMMA StepKeepsConsistent ==
    ASSUME NEW s, SafeDeploys(s), SafeGives(s), SafeFlips(s),
           Consistent(records, facts), Possible(s), ~Skipped(s),
           \A f \in s.flips : Registered(f[2], f[3]) \in facts,
           Given("stablecoin") \in s.gives => Upgraded \in facts,
           facts' = facts \union s.gives \union s.flips,
           records' = NewRecords(s)
    PROVE  Consistent(records, facts)'
<1>1. s.needs \subseteq records \union facts
  BY DEF Possible
<1>2. \A r \in records' : r \in s.deploys \/ (r \in records /\ \A d \in s.deploys : r[1] # d[1])
  BY DEF NewRecords
<1>3. \A r \in records' : IsRecord(r) /\ r[1] \notin Sentences
  BY <1>2 DEF SafeDeploys, Consistent
<1>4. \A x, y \in records' : x[1] = y[1] => x = y
  BY <1>2 DEF SafeDeploys, Consistent
<1>5. \A f \in facts' : f \in facts \/ f \in s.gives \/ f \in s.flips
  OBVIOUS
<1>6. \A f \in s.flips : IsFact(f) /\ f[1] = "not paused"
  <2> SUFFICES ASSUME NEW f \in s.flips PROVE IsFact(f) /\ f[1] = "not paused"
    OBVIOUS
  <2>1. PICK v, w : v = f[2] /\ w = f[3]
    OBVIOUS
  <2>2. f = <<"not paused", v, w>>
    BY <2>1 DEF SafeFlips, Open
  <2>3. f[1] = "not paused"
    BY <2>2
  <2> QED
    BY <2>1, <2>2, <2>3 DEF IsFact
<1>7. \A f \in facts' : IsFact(f) /\ f[1] # "Treasury_EUR"
  BY <1>5, <1>6 DEF SafeGives, Consistent
<1>8. \A f \in facts' : f[1] = "not paused" => Registered(f[2], f[3]) \in facts'
  BY <1>5 DEF SafeGives, Consistent
<1>9. \A t : Ready(t) \in s.needs => Ready(t) \in facts
  <2> SUFFICES ASSUME NEW t, Ready(t) \in s.needs PROVE Ready(t) \notin records
    BY <1>1
  <2>1. Ready(t)[1] \in Sentences
    BY DEF Ready, Sentences
  <2> QED
    BY <2>1 DEF Consistent
<1>10. Given("stablecoin") \in s.needs => Given("stablecoin") \in facts
  <2>1. Given("stablecoin")[1] \in Sentences
    BY DEF Given, Sentences
  <2>2. Given("stablecoin") \notin records
    BY <2>1 DEF Consistent
  <2> QED
    BY <1>1, <2>2
<1>11. \A f \in facts' : f[1] = "registered" => Ready(f[3]) \in facts'
  BY <1>5, <1>6, <1>9 DEF SafeGives, Consistent
<1>12. Given("stablecoin") \in facts' => Upgraded \in facts'
  <2>1. Given("stablecoin") \notin s.flips
    BY <1>6 DEF Given
  <2> QED
    BY <2>1 DEF Consistent
<1>13. \A name : (\E r \in records : r[1] = name) => \E r \in records' : r[1] = name
  BY DEF NewRecords
<1>14. \A name : /\ \E r \in records : r[1] = name
                 /\ <<name, "mined">> \notin records
                 => <<name, "mined">> \notin records'
  <2> SUFFICES ASSUME NEW name, NEW r \in records, r[1] = name, <<name, "mined">> \in s.deploys
               PROVE  FALSE
    BY <1>2
  <2>1. s.reuses
    <3> DEFINE d == <<name, "mined">>
    <3>1. d[2] = "mined" /\ d \in s.deploys
      OBVIOUS
    <3> HIDE DEF d
    <3> QED
      BY <3>1 DEF SafeDeploys
  <2>2. NameRecorded(<<name, "mined">>[1])
    BY DEF NameRecorded
  <2> QED
    BY <2>1, <2>2 DEF Skipped
<1>15. ASSUME NEW f \in facts', f[1] = "its stablecoin is initialized"
       PROVE  \/ f[2] = "registry"
              \/ Given("stablecoin") \in facts'
              \/ (\E r \in records' : r[1] = f[2]) /\ <<f[2], "mined">> \notin records'
  <2>1. CASE f \in facts
    <3>1. \/ f[2] = "registry"
          \/ Given("stablecoin") \in facts
          \/ (\E r \in records : r[1] = f[2]) /\ <<f[2], "mined">> \notin records
      BY <1>15, <2>1 DEF Consistent
    <3> QED
      BY <1>13, <1>14, <3>1
  <2>2. CASE f \in s.gives
    <3>1. \/ Given("stablecoin") \in facts
          \/ f[2] = "Treasury_EUR" /\ <<"Treasury_EUR", "AgToken_EUR">> \in s.needs
      BY <1>10, <1>15, <2>2 DEF SafeGives
    <3>2. ASSUME f[2] = "Treasury_EUR", <<"Treasury_EUR", "AgToken_EUR">> \in s.needs
          PROVE  (\E r \in records : r[1] = f[2]) /\ <<f[2], "mined">> \notin records
      <4> DEFINE r == <<"Treasury_EUR", "AgToken_EUR">>
                 m == <<"Treasury_EUR", "mined">>
      <4>1. r[1] = "Treasury_EUR" /\ r[2] = "AgToken_EUR" /\ m[1] = "Treasury_EUR" /\ m[2] = "mined"
        OBVIOUS
      <4>2. r \in records \union facts
        BY <1>1, <3>2
      <4> HIDE DEF r, m
      <4>3. r \in records
        BY <4>1, <4>2 DEF Consistent
      <4>4. m \notin records
        BY <4>1, <4>3 DEF Consistent
      <4> QED
        BY <3>2, <4>1, <4>3, <4>4 DEF m
    <3> QED
      BY <1>13, <1>14, <3>1, <3>2
  <2>3. CASE f \in s.flips
    BY <1>6, <1>15, <2>3
  <2> QED
    BY <1>5, <2>1, <2>2, <2>3
<1> QED
  BY <1>3, <1>4, <1>7, <1>8, <1>11, <1>12, <1>15 DEF Consistent

\* A call is never skipped: what it gives is new unless it was barred.
LEMMA CallIsMade ==
    ASSUME NEW needs, NEW bars, NEW gives, Ahead = Call(needs, bars, gives)[1], Inv, DoStep
    PROVE  /\ needs \subseteq records \union facts /\ bars \intersect facts = {}
           /\ facts' = facts \union gives
<1>1. /\ Ahead.unless = {} /\ ~Ahead.reuses /\ Ahead.deploys = {} /\ Ahead.needs = needs
      /\ Ahead.bars = bars /\ Ahead.gives = gives /\ Ahead.flips = {}
  BY DEF Call, Nothing
<1>2. ~Skipped(Ahead)
  BY <1>1 DEF Skipped
<1> QED
  BY <1>1, <1>2, StepEffect DEF Possible

LEMMA DoStepKeepsConsistent == ASSUME Inv, DoStep PROVE Consistent(records, facts)'
<1>1. Consistent(records, facts)
  BY DEF Inv
<1>2. SafeDeploys(Ahead) /\ SafeGives(Ahead) /\ SafeFlips(Ahead) /\ Possible(Ahead)
  BY StepEffect DEF Safe
<1>3. CASE records' = records /\ facts' = facts
  BY <1>1, <1>3
<1>4. CASE ~Skipped(Ahead) /\ records' = NewRecords(Ahead)
           /\ facts' = facts \union Ahead.gives \union Ahead.flips
  <2>1. queue # << >> /\ pos < Len(Steps)
    BY DEF DoStep
  <2>2. /\ \A f \in Ahead.flips : Registered(f[2], f[3]) \in facts
        /\ Given("stablecoin") \in Ahead.gives => Upgraded \in facts
    BY <2>1 DEF Inv, Armed
  <2> HIDE DEF Ahead
  <2> QED
    BY <1>1, <1>2, <1>4, <2>2, StepKeepsConsistent
<1> QED
  BY <1>3, <1>4, StepEffect

\* The step that unpauses a VaultManager comes after that which registers it, and reverts
\* there if it was registered; the step that hands the proxy over comes after the upgrade.
LEMMA DoStepKeepsArmed == ASSUME Inv, DoStep PROVE Armed'
<1> SUFFICES ASSUME pos' < Len(Steps')
             PROVE  /\ \A f \in Ahead'.flips :
                          /\ f \notin facts'
                          /\ Registered(f[2], f[3]) \in facts' /\ Ready(f[3]) \in facts'
                    /\ Given("stablecoin") \in Ahead'.gives => Upgraded \in facts'
  BY DEF Armed
<1> DEFINE next == Steps[pos + 2]
<1>1. /\ queue # << >> /\ pos \in Nat /\ pos' = pos + 1 /\ Steps' = Steps
      /\ Len(Steps) \in Nat /\ pos + 2 \in 2..Len(Steps)
  BY StepEffect, RunningScript
<1>2. Ahead' = next
  <2>1. pos' + 1 = pos + 2
    BY <1>1
  <2> QED
    BY <1>1, <2>1 DEF Ahead
<1>3. SafeFlips(next)
  BY <1>1, RunningScript DEF Safe
<1>4. Alone(next) \/ Leads(Ahead, next)
  <2>1. (pos + 2) - 1 = pos + 1
    BY <1>1
  <2>2. Alone(next) \/ Leads(Steps[(pos + 2) - 1], next)
    BY <1>1, RunningScript
  <2> QED
    BY <2>1, <2>2 DEF Ahead
<1> HIDE DEF next
<1>5. CASE Alone(next)
  BY <1>2, <1>5 DEF Alone
<1>6. CASE Leads(Ahead, next)
  <2>1. ASSUME NEW f \in next.flips
        PROVE  f \notin facts' /\ Registered(f[2], f[3]) \in facts' /\ Ready(f[3]) \in facts'
    <3> DEFINE needs == {Governed(f[3]), Ready(f[3])}
               bars == {Registered(f[2], f[3])}
    <3>1. Ahead = Call(needs, bars, bars)[1]
      BY <1>6 DEF Leads, Register
    <3> HIDE DEF needs, bars
    <3>2. needs \subseteq records \union facts /\ bars \intersect facts = {}
          /\ facts' = facts \union bars
      BY <3>1, CallIsMade
    <3>3. Ready(f[3]) \in facts
      <4>1. Ready(f[3]) \in records \union facts
        BY <3>2 DEF needs
      <4>2. Ready(f[3])[1] \in Sentences
        BY DEF Ready, Sentences
      <4> QED
        BY <4>1, <4>2 DEF Inv, Consistent
    <3>4. f[1] = "not paused"
      <4>1. PICK v, w : v = f[2] /\ w = f[3]
        OBVIOUS
      <4>2. f = <<"not paused", v, w>>
        BY <1>3, <4>1 DEF SafeFlips, Open
      <4> QED
        BY <4>2
    <3>5. f \notin facts
      BY <3>2, <3>4 DEF bars, Inv, Consistent
    <3>6. f \notin bars
      <4>1. Registered(f[2], f[3])[1] = "registered"
        BY DEF Registered
      <4> QED
        BY <3>4, <4>1 DEF bars
    <3> QED
      BY <3>2, <3>3, <3>5, <3>6 DEF bars
  <2>2. ASSUME Given("stablecoin") \in next.gives PROVE Upgraded \in facts'
    <3> DEFINE gives == {Upgraded}
               needs == {Created}
               bars == {Given("stablecoin")}
    <3>1. Ahead = Call(needs, bars, gives)[1]
      BY <1>6, <2>2 DEF Leads, UpgradeTo
    <3> HIDE DEF needs, bars, gives
    <3>2. facts' = facts \union gives
      BY <3>1, CallIsMade
    <3> QED
      BY <3>2 DEF gives
  <2> QED
    BY <1>2, <2>1, <2>2
<1> QED
  BY <1>4, <1>5, <1>6

\* What a call gives and is barred by, it gives now.
LEMMA CallIsFresh ==
    ASSUME NEW needs, NEW fact, Ahead = Call(needs, {fact}, {fact})[1], Inv, DoStep
    PROVE  fact \in fresh'
<1> DEFINE gives == {fact}
<1>1. Ahead = Call(needs, gives, gives)[1]
  OBVIOUS
<1> HIDE DEF gives
<1>2. gives \intersect facts = {} /\ facts' = facts \union gives
  BY <1>1, CallIsMade
<1>3. fresh' = fresh \union (facts' \ facts)
  BY StepEffect
<1> QED
  BY <1>2, <1>3 DEF gives

LEMMA DoStepKeepsResumed == ASSUME Inv, DoStep PROVE Resumed'
<1>1. /\ queue # << >> /\ queue' = queue /\ pos \in Nat /\ pos' = pos + 1
      /\ fresh \subseteq fresh'
  BY StepEffect
<1>2. network \in Networks /\ config \in Configs
  BY DEF Inv, DeploymentTypeOK
<1>3. ASSUME Head(queue) = "agTokenNewStable", pos' >= 2 PROVE Created \in fresh'
  <2>1. CASE pos >= 2
    BY <1>1, <1>3, <2>1 DEF Inv, Resumed
  <2>2. CASE pos = 1
    <3>1. Steps = AgTokenNewStable(network)
      BY <1>2, <1>3, TagsAndScripts DEF Steps
    <3>2. Ahead = Create2[1]
      BY <2>2, <3>1, AgTokenSecond DEF Ahead
    <3> QED
      BY <3>2, CallIsFresh DEF Create2
  <2> QED
    BY <1>1, <1>3, <2>1, <2>2
<1>4. ASSUME Head(queue) = "proxyAdminAngleLabs", pos' >= 2
      PROVE  Given("ProxyAdminAngleLabs") \in fresh'
  <2>1. CASE pos >= 2
    BY <1>1, <1>4, <2>1 DEF Inv, Resumed
  <2>2. CASE pos = 1
    <3> DEFINE fact == Given("ProxyAdminAngleLabs")
    <3>1. Steps = ProxyAdminAngleLabs
      BY <1>2, <1>4, TagsAndScripts DEF Steps
    <3>2. Ahead = Call({}, {fact}, {fact})[1]
      BY <2>2, <3>1, ProxyAdminSecond DEF Ahead
    <3> HIDE DEF fact
    <3>3. fact \in fresh'
      BY <3>2, CallIsFresh
    <3> QED
      BY <3>3 DEF fact
  <2> QED
    BY <1>1, <1>4, <2>1, <2>2
<1>5. /\ \A i \in 2..Len(queue) : queue[i] \in DOMAIN Before => queue[i - 1] = Before[queue[i]]
      /\ Head(queue) \in Later => Created \in fresh
      /\ Head(queue) = "coreMerkl" => Given("ProxyAdminAngleLabs") \in fresh
  BY <1>1 DEF Inv, Resumed
<1> QED
  BY <1>1, <1>3, <1>4, <1>5 DEF Resumed

LEMMA DoStepKeepsInv == ASSUME Inv, DoStep PROVE Inv'
<1>1. /\ queue # << >> /\ pos \in Nat /\ pos' = pos + 1 /\ pos + 1 \in 1..Len(Steps)
      /\ UNCHANGED <<network, config, queue, runs, crashes>>
      /\ Steps' = Steps /\ facts \subseteq facts' /\ fresh' = fresh \union (facts' \ facts)
  BY StepEffect
<1>2. Consistent(records, facts)'
  BY DoStepKeepsConsistent
<1>3. DeploymentTypeOK'
  <2>1. fresh' \subseteq facts'
    BY <1>1 DEF Inv, DeploymentTypeOK
  <2>2. pos' \in Nat
    BY <1>1
  <2>3. /\ \A r \in records' : IsRecord(r)
        /\ \A x, y \in records' : x[1] = y[1] => x = y
        /\ \A f \in facts' : IsFact(f)
    BY <1>2 DEF Consistent
  <2> QED
    BY <1>1, <2>1, <2>2, <2>3 DEF Inv, DeploymentTypeOK
<1>4. OneCrashARun'
  BY <1>1 DEF Inv, OneCrashARun
<1>5. QueueOK'
  <2>1. Len(Steps) \in Nat
    BY <1>1, RunningScript
  <2> QED
    BY <1>1, <2>1 DEF QueueOK
<1>6. Armed' /\ Resumed'
  BY DoStepKeepsArmed, DoStepKeepsResumed
<1> QED
  BY <1>2, <1>3, <1>4, <1>5, <1>6 DEF Inv

LEMMA InvStep == Inv /\ [DeploymentNext]_deployVars => Inv'
<1> SUFFICES ASSUME Inv, [DeploymentNext]_deployVars PROVE Inv'
  OBVIOUS
<1>1. ASSUME NEW tag \in OpenTags, StartRun(tag) PROVE Inv'
  BY <1>1, StartRunKeepsInv
<1>2. CASE DoStep
  BY <1>2, DoStepKeepsInv
<1>3. CASE NextScript
  BY <1>3, NextScriptKeepsInv
<1>4. CASE Throw \/ Crash
  BY <1>4, StopKeepsInv
<1>5. CASE UNCHANGED deployVars
  <2>1. /\ UNCHANGED <<network, config, records, facts, queue, pos>>
        /\ UNCHANGED <<runs, crashes, fresh>>
    BY <1>5 DEF deployVars
  <2>2. Steps' = Steps /\ Ahead' = Ahead
    BY <2>1 DEF Steps, Ahead
  <2> QED
    BY <2>1, <2>2 DEF Inv, DeploymentTypeOK, OneCrashARun, QueueOK, Armed, Resumed
<1> QED
  BY <1>1, <1>2, <1>3, <1>4, <1>5 DEF DeploymentNext

LEMMA InvImpliesDeploymentInv == Inv => DeploymentInv
<1> SUFFICES ASSUME Inv PROVE DeploymentInv
  OBVIOUS
<1>1. DeploymentTypeOK
  BY DEF Inv
<1>2. OpenIsRegistered
  <2> SUFFICES ASSUME NEW t, Open(config.vault, t) \in facts
               PROVE  Registered(config.vault, t) \in facts /\ Ready(t) \in facts
    BY DEF OpenIsRegistered
  <2> DEFINE v == config.vault
             f == Open(v, t)
             g == Registered(v, t)
  <2>1. f[1] = "not paused" /\ f[2] = v /\ f[3] = t /\ g[1] = "registered" /\ g[3] = t
    BY DEF Open, Registered
  <2> HIDE DEF f, v
  <2>2. Registered(v, t) \in facts
    BY <2>1 DEF Inv, Consistent, f, v
  <2> HIDE DEF g
  <2>3. Ready(t) \in facts
    BY <2>1, <2>2 DEF Inv, Consistent, g
  <2> QED
    BY <2>2, <2>3 DEF v
<1>3. HandedOverInOrder
  <2>1. Given("stablecoin") \in facts => Upgraded \in facts
    BY DEF Inv, Consistent
  <2>2. ASSUME Ready(config.treasury) \in facts, <<config.treasury, "mined">> \in records
        PROVE  Given("stablecoin") \in facts
    <3> DEFINE t == config.treasury
               f == Ready(t)
    <3>1. f[1] = "its stablecoin is initialized" /\ f[2] = t
      BY DEF Ready
    <3>2. t # "registry"
      BY ConfigNames DEF Inv, DeploymentTypeOK
    <3> HIDE DEF f, t
    <3>3. f \in facts /\ <<t, "mined">> \in records
      BY <2>2 DEF f, t
    <3> QED
      BY <3>1, <3>2, <3>3 DEF Inv, Consistent
  <2> QED
    BY <2>1, <2>2 DEF HandedOverInOrder
<1> QED
  BY <1>1, <1>2, <1>3 DEF DeploymentInv

\* What a step records and establishes stays, whoever records it anew.
Kept ==
    /\ facts \subseteq facts'
    /\ \A r \in records : \E x \in records' : x[1] = r[1]

LEMMA StepKeeps == Inv /\ [DeploymentNext]_deployVars => Kept
<1> SUFFICES ASSUME Inv, [DeploymentNext]_deployVars PROVE Kept
  OBVIOUS
<1>1. CASE DoStep
  <2>1. facts \subseteq facts' /\ (records' = records \/ records' = NewRecords(Ahead))
    BY <1>1, StepEffect
  <2> QED
    BY <2>1 DEF Kept, NewRecords
<1>2. CASE UNCHANGED <<records, facts>>
  BY <1>2 DEF Kept
<1>3. DoStep \/ UNCHANGED <<records, facts>>
  BY DEF DeploymentNext, StartRun, NextScript, Throw, Crash, Stop, deployVars
<1> QED
  BY <1>1, <1>2, <1>3

\* What is deployed after the creation of the stablecoin, or after the handover of the
\* ProxyAdmin, is deployed by a script that ran after it.
LEMMA StepNeverResumes ==
    ASSUME Inv, [DeploymentNext]_deployVars
    PROVE  /\ \A contract \in AfterCreation(config) : Follows(contract, Created)
           /\ Follows(<<"CoreMerkl", "">>, Given("ProxyAdminAngleLabs"))
<1>1. CASE UNCHANGED records
  BY <1>1 DEF Follows
<1>2. CASE DoStep
  <2>1. queue # << >> /\ Ahead.deploys \intersect Followers(config, Head(queue)) = {}
    BY <1>2, StepEffect DEF Safe
  <2>2. records' \ records \subseteq Ahead.deploys
    BY <1>2, StepEffect DEF NewRecords
  <2>3. /\ Head(queue) \in Later => Created \in fresh
        /\ Head(queue) = "coreMerkl" => Given("ProxyAdminAngleLabs") \in fresh
    BY <2>1 DEF Inv, Resumed
  <2>4. /\ Head(queue) \notin Later => AfterCreation(config) \subseteq Followers(config, Head(queue))
        /\ Head(queue) # "coreMerkl" => AfterHandover \subseteq Followers(config, Head(queue))
    BY DEF Followers, Special
  <2>5. <<"CoreMerkl", "">> \in AfterHandover
    BY DEF AfterHandover
  <2> QED
    BY <2>1, <2>2, <2>3, <2>4, <2>5 DEF Follows
<1>3. DoStep \/ UNCHANGED records
  BY DEF DeploymentNext, StartRun, NextScript, Throw, Crash, Stop, deployVars
<1> QED
  BY <1>1, <1>2, <1>3

-----------------------------------------------------------------------------
\* Theorems.

(***************************************************************************)
(* Whatever tags are run and wherever they stop, with any constants.ts: a  *)
(* name is recorded once, a VaultManager that is not paused is registered  *)
(* at a treasury that can mint (vaultManager.ts registers it before        *)
(* togglePause), and the proxy of the stablecoin is given to governance    *)
(* with its implementation before the treasury is initialized for it.      *)
(***************************************************************************)
THEOREM DeploymentsAreSafe == DeploymentSpec => []DeploymentInv
  BY InvInit, InvStep, InvImpliesDeploymentInv, PTL DEF DeploymentSpec

(***************************************************************************)
(* No run undoes what another has done: togglePause pauses no VaultManager *)
(* that is open, because the call before it reverts when that is           *)
(* registered, and a contract deployed again keeps its name.               *)
(***************************************************************************)
THEOREM NothingIsUndone == DeploymentSpec => [][Kept]_deployVars
  BY InvInit, InvStep, StepKeeps, PTL DEF DeploymentSpec

(***************************************************************************)
(* A tag run again neither pauses what is open nor goes on from where it   *)
(* stopped: the treasury, its oracle and its VaultManager are deployed by  *)
(* the run that created the stablecoin only, CoreMerkl by the run that     *)
(* handed its ProxyAdmin over, since a run starts by the dependencies.     *)
(***************************************************************************)
THEOREM RerunsAlwaysStopEarly == DeploymentSpec => RerunsStopEarly
<1> DEFINE Stays == \A t \in {config.treasury, "registry"} :
                      Open(config.vault, t) \in facts => Open(config.vault, t) \in facts'
           NoneResumed ==
               /\ \A contract \in {<<config.treasury, "mined">>,
                                  <<"Oracle_WSTETH_USD", config.treasury>>,
                                  <<config.vault, config.treasury>>} : Follows(contract, Created)
               /\ Follows(<<"CoreMerkl", "">>, Given("ProxyAdminAngleLabs"))
<1>1. Kept => Stays
  BY DEF Kept
<1>2. Inv /\ [DeploymentNext]_deployVars => NoneResumed
  BY StepNeverResumes DEF AfterCreation
<1>3. Inv /\ [DeploymentNext]_deployVars => Stays
  BY <1>1, StepKeeps
<1> HIDE DEF Stays, NoneResumed
<1>4. DeploymentSpec => [][Stays]_deployVars /\ [][NoneResumed]_deployVars
  BY <1>2, <1>3, InvInit, InvStep, PTL DEF DeploymentSpec
<1> QED
  BY <1>4 DEF RerunsStopEarly, StaysOpen, NeverResumed, Stays, NoneResumed
=============================================================================

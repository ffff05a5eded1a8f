----------------------------- MODULE ConfigProofs -----------------------------
(***************************************************************************)
(* Proofs about Config for any settings, types, defaults and texts: the    *)
(* order of precedence and the causes of an exit.  The invariant Inv says  *)
(* what the Config holds after each of the two passes.                     *)
(***************************************************************************)
EXTENDS Config, TLAPS

\* The Config after the first pass.
Loaded(s) == IF ByEnv(s) THEN Meaning(s, env[s]) ELSE Default[s]

\* The inductive invariant.
Inv ==
  /\ TypeOK /\ PrecedenceIsRight
  /\ pc = "env" => config = Default
  /\ pc = "flags" => \A s \in Settings : config[s] = Loaded(s)
  /\ pc = "running" => \A s \in Settings : Type[s] = "patterns" => config[s] \notin Broken
  /\ pc = "exit1" => \E s \in Settings : Type[s] = "patterns" /\ config[s] \in Broken
-----------------------------------------------------------------------------
\* A setting given a text has a text that may be given.
LEMMA GivenShape ==
  ASSUME NEW texts, DOMAIN texts = Settings, NEW t \in Given(texts), NEW s \in Settings
  PROVE  t[s] \in texts[s]
BY DEF Given

\* LoadFromEnv passes over exactly the variables that supply nothing.
LEMMA FromEnvIsLoaded ==
  ASSUME NEW s \in Settings, config = Default
  PROVE  FromEnv(s) = Loaded(s)
BY DEF FromEnv, Loaded, ByEnv

\* ParseFlags keeps what was loaded unless the flag takes effect.
LEMMA FromFlagIsRight ==
  ASSUME NEW s \in Settings, config[s] = Loaded(s)
  PROVE  FromFlag(s) = IF ByFlag(s) THEN Meaning(s, flag[s]) ELSE Loaded(s)
BY DEF FromFlag, ByFlag, FlagGiven, Overlooked

\* The values that the two passes may leave.
Possible(s) ==
  {Default[s]} \cup
    {Meaning(s, t) : t \in {u \in EnvTexts[s] \cup FlagTexts[s] :
                             u # Unset /\ (Type[s] = "port" => u # Junk)}}

LEMMA LoadedIsPossible ==
  ASSUME env \in Given(EnvTexts), NEW s \in Settings
  PROVE  Loaded(s) \in Possible(s)
<1>1. env[s] \in EnvTexts[s]
  BY GivenShape, ConfigAssumption
<1>2. QED
  BY <1>1 DEF Loaded, ByEnv, Possible

LEMMA FlaggedIsPossible ==
  ASSUME flag \in Given(FlagTexts), NEW s \in Settings, ByFlag(s), ~ Refused(s)
  PROVE  Meaning(s, flag[s]) \in Possible(s)
<1>1. flag[s] \in FlagTexts[s]
  BY GivenShape, ConfigAssumption
<1>2. flag[s] # Unset /\ (Type[s] = "port" => flag[s] # Junk)
  BY DEF ByFlag, FlagGiven, Overlooked, Refused
<1>3. QED
  BY <1>1, <1>2 DEF Possible

LEMMA InitInv == ASSUME Init PROVE Inv
BY DEF Init, Inv, TypeOK, PrecedenceIsRight, Parsed

LEMMA NextInv == ASSUME Inv, [Next]_vars PROVE Inv'
<1>t. /\ env \in Given(EnvTexts) /\ flag \in Given(FlagTexts)
      /\ pc \in {"env", "flags", "app", "running", "exit1", "exit2"}
      /\ \A s \in Settings : config[s] \in Possible(s)
  BY DEF Inv, TypeOK, Possible
<1>1. CASE LoadFromEnv
  <2>1. /\ pc = "env" /\ pc' = "flags" /\ env' = env /\ flag' = flag
        /\ \A s \in Settings : config'[s] = FromEnv(s)
    BY <1>1 DEF LoadFromEnv
  <2>2. \A s \in Settings : config'[s] = Loaded(s) /\ Loaded(s)' = Loaded(s)
    BY <2>1, FromEnvIsLoaded DEF Inv, Loaded, ByEnv
  <2>3. TypeOK'
    BY <1>t, <2>1, <2>2, LoadedIsPossible DEF TypeOK, Possible
  <2>4. QED
    BY <2>1, <2>2, <2>3 DEF Inv, PrecedenceIsRight, Parsed
<1>2. CASE ParseFlags
  <2>1. pc = "flags" /\ env' = env /\ flag' = flag /\ \A s \in Settings : config[s] = Loaded(s)
    BY <1>2 DEF ParseFlags, Inv
  <2>2. CASE \E s \in Settings : Refused(s)
    <3>1. pc' = "exit2" /\ config' = config
      BY <1>2, <2>2 DEF ParseFlags
    <3>2. TypeOK'
      BY <1>t, <2>1, <3>1 DEF TypeOK, Possible
    <3>3. QED
      BY <3>1, <3>2 DEF Inv, PrecedenceIsRight, Parsed
  <2>3. CASE \A s \in Settings : ~ Refused(s)
    <3>1. pc' = "app" /\ \A s \in Settings : config'[s] = FromFlag(s)
      BY <1>2, <2>3 DEF ParseFlags
    <3>2. \A s \in Settings :
            config'[s] = IF ByFlag(s) THEN Meaning(s, flag[s]) ELSE Loaded(s)
      BY <2>1, <3>1, FromFlagIsRight
    <3>3. \A s \in Settings : config'[s] \in Possible(s)
      BY <1>t, <2>3, <3>2, LoadedIsPossible, FlaggedIsPossible
    <3>4. TypeOK'
      BY <1>t, <2>1, <3>1, <3>3 DEF TypeOK, Possible
    <3>5. PrecedenceIsRight'
      BY <2>1, <3>2 DEF PrecedenceIsRight, Loaded, ByFlag, FlagGiven, Overlooked, ByEnv
    <3>6. QED
      BY <3>1, <3>4, <3>5 DEF Inv
  <2>4. QED
    BY <2>2, <2>3
<1>3. CASE NewApp
  <2>1. /\ pc = "app" /\ env' = env /\ flag' = flag /\ config' = config
        /\ pc' = IF \E s \in Settings : Type[s] = "patterns" /\ config[s] \in Broken
                 THEN "exit1" ELSE "running"
    BY <1>3 DEF NewApp
  <2>2. TypeOK'
    BY <1>t, <2>1 DEF TypeOK, Possible
  <2>3. PrecedenceIsRight'
    BY <2>1 DEF Inv, PrecedenceIsRight, Parsed, ByFlag, FlagGiven, Overlooked, ByEnv
  <2>4. QED
    BY <2>1, <2>2, <2>3 DEF Inv
<1>4. CASE UNCHANGED vars
  <2>1. TypeOK' /\ PrecedenceIsRight'
    BY <1>t, <1>4
    DEF vars, Inv, TypeOK, Possible, PrecedenceIsRight, Parsed, ByFlag, FlagGiven, Overlooked, ByEnv
  <2>2. QED
    BY <1>4, <2>1 DEF vars, Inv, Loaded, ByEnv
<1>5. QED
  BY <1>1, <1>2, <1>3, <1>4 DEF Next

\* The inductive invariant holds for any settings and texts.
THEOREM InvHolds == Spec => []Inv
<1>1. Init => Inv
  BY InitInv
<1>2. Inv /\ [Next]_vars => Inv'
  BY NextInv
<1>3. QED
  BY <1>1, <1>2, PTL DEF Spec

\* Every value in the Config is a default or stands for a text that was given
\* for its setting (config.go:93-208).
THEOREM TypeCorrect == Spec => []TypeOK
<1>1. Inv => TypeOK
  BY DEF Inv
<1>2. QED
  BY <1>1, InvHolds, PTL

\* Loading the environment and then the flags gives the flag precedence over
\* the variable and the variable over the default, except that an empty list of
\* patterns or resolver gives way to the variable (config.go:93-208).
THEOREM PrecedenceTheorem == Spec => []PrecedenceIsRight
<1>1. Inv => PrecedenceIsRight
  BY DEF Inv
<1>2. QED
  BY <1>1, InvHolds, PTL

\* The process runs only with patterns that compile and exits only over those
\* in effect (main.go:258-274).
THEOREM ExitTheorem == Spec => []ExitHasCause
<1>1. ASSUME Inv, pc = "exit1"
      PROVE  \E s \in Settings : /\ Type[s] = "patterns"
                                 /\ flag[s] \in Broken \/ (env[s] \in Broken /\ ~ ByFlag(s))
  <2>1. PICK s \in Settings : Type[s] = "patterns" /\ config[s] \in Broken
    BY <1>1 DEF Inv
  <2>2. config[s] = IF ByFlag(s) THEN Meaning(s, flag[s])
                    ELSE IF ByEnv(s) THEN Meaning(s, env[s]) ELSE Default[s]
    BY <1>1 DEF Inv, PrecedenceIsRight, Parsed
  <2>3. \A text : Meaning(s, text) \in Broken => text \in Broken
    BY <2>1, ConfigAssumption DEF Meaning
  <2>4. Default[s] \notin Broken
    BY <2>1, ConfigAssumption
  <2>5. QED
    BY <2>1, <2>2, <2>3, <2>4
<1>2. Inv => ExitHasCause
  BY <1>1 DEF Inv, ExitHasCause
<1>3. QED
  BY <1>2, InvHolds, PTL
=============================================================================

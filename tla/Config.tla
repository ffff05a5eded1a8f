-------------------------------- MODULE Config --------------------------------
(***************************************************************************)
(* internal/config and the beginning of main: a configuration is put       *)
(* together out of the defaults, the environment (LoadFromEnv) and the     *)
(* command line (ParseFlags), in this order, and NewApp compiles its       *)
(* patterns.  Settings of one type are treated alike, each by code of its  *)
(* own, so one of each type stands for all of them.                        *)
(***************************************************************************)
EXTENDS Naturals, FiniteSets

CONSTANTS
  Settings, \* the fields of Config
  Type,     \* Type[s]: "patterns", "resolver", "string", "port" or "switch"
  Default,  \* DefaultConfig
  EnvTexts, \* EnvTexts[s]: what the environment variable may hold
  FlagTexts,\* FlagTexts[s]: what the flag may hold
  Broken    \* pattern lists with an expression that does not compile

ASSUME ConfigAssumption ==
  /\ Type \in [Settings -> {"patterns", "resolver", "string", "port", "switch"}]
  /\ DOMAIN Default = Settings
  /\ DOMAIN EnvTexts = Settings /\ DOMAIN FlagTexts = Settings
  /\ \A s \in Settings : Type[s] = "patterns" => {Default[s], "no patterns"} \cap Broken = {}

\* Text: not there, there but empty, blank lines only, no number.  Any other
\* text is the value of its setting, except that a switch is "on" or "off".
Unset == "unset"
Empty == ""
Lines == "blank lines"
Junk == "junk"

VARIABLES
  env,    \* env[s]: the environment variable of s
  flag,   \* flag[s]: its command-line flag
  config, \* the Config
  pc      \* env, flags, app, running, exit1 or exit2

vars == <<env, flag, config, pc>>

\* All ways to give each setting a text.
Given(texts) ==
  {t \in [Settings -> UNION {texts[s] : s \in Settings}] :
     \A s \in Settings : t[s] \in texts[s]}

Init ==
  /\ env \in Given(EnvTexts) /\ flag \in Given(FlagTexts)
  /\ config = Default /\ pc = "env"

True == {"true", "1"}

\* The value that a text stands for: splitPatterns, Atoi, the boolean tests.
Meaning(s, text) ==
  CASE Type[s] = "patterns" /\ text = Lines -> "no patterns"
    [] Type[s] = "switch" -> IF text \in True THEN "on" ELSE "off"
    [] OTHER -> text

\* One setting of LoadFromEnv: empty variables, and ports that are no number,
\* are passed over.
FromEnv(s) ==
  IF env[s] \in {Unset, Empty} \/ (Type[s] = "port" /\ env[s] = Junk)
  THEN config[s] ELSE Meaning(s, env[s])

LoadFromEnv ==
  /\ pc = "env" /\ pc' = "flags"
  /\ config' = [s \in Settings |-> FromEnv(s)]
  /\ UNCHANGED <<env, flag>>

\* Text that pflag.Parse refuses, which ends the process.
Refused(s) ==
  \/ Type[s] = "port" /\ flag[s] \in {Empty, Junk}
  \/ Type[s] = "switch" /\ flag[s] \notin True \cup {Unset, "false"}

\* Mutant of FromFlag: the default of the flag is that of DefaultConfig.
FromFlagOrDefault(s) ==
  IF flag[s] = Unset THEN Default[s] ELSE Meaning(s, flag[s])

\* One setting of ParseFlags.  Patterns and resolvers go through a variable of
\* their own, which counts unless empty; the rest is bound to the Config.
FromFlag(s) ==
  IF flag[s] = Unset \/ (Type[s] \in {"patterns", "resolver"} /\ flag[s] = Empty)
  THEN config[s] ELSE Meaning(s, flag[s])

ParseFlags ==
  /\ pc = "flags"
  /\ IF \E s \in Settings : Refused(s)
     THEN pc' = "exit2" /\ UNCHANGED config
     ELSE pc' = "app" /\ config' = [s \in Settings |-> FromFlag(s)]
  /\ UNCHANGED <<env, flag>>

\* Mutant of NewApp: a list that does not compile is run without.
NewAppLenient ==
  /\ pc = "app" /\ pc' = "running"
  /\ UNCHANGED <<env, flag, config>>

\* Validate accepts everything; NewRegexMatcher may not.
NewApp ==
  /\ pc = "app"
  /\ pc' = IF \E s \in Settings : Type[s] = "patterns" /\ config[s] \in Broken
           THEN "exit1" ELSE "running"
  /\ UNCHANGED <<env, flag, config>>

Next == LoadFromEnv \/ ParseFlags \/ NewApp

Spec == Init /\ [][Next]_vars
-----------------------------------------------------------------------------
Parsed == pc \in {"app", "running", "exit1"}

FlagGiven(s) == flag[s] # Unset

\* A flag that is given and yet has no effect (config.go:120-143).
Overlooked(s) == flag[s] = Empty /\ Type[s] \in {"patterns", "resolver"}

\* A flag, and a variable, that takes effect unless something else precedes it.
ByFlag(s) == FlagGiven(s) /\ ~ Overlooked(s)

ByEnv(s) ==
  env[s] \notin {Unset, Empty} /\ (env[s] = Junk => Type[s] # "port")

\* The values a setting can take, and none that is not text of its own type.
TypeOK ==
  /\ env \in Given(EnvTexts) /\ flag \in Given(FlagTexts)
  /\ pc \in {"env", "flags", "app", "running", "exit1", "exit2"}
  /\ \A s \in Settings :
       config[s] \in {Default[s]} \cup
         {Meaning(s, t) : t \in {u \in EnvTexts[s] \cup FlagTexts[s] :
                                  u # Unset /\ (Type[s] = "port" => u # Junk)}}

\* Loading in two passes gives each setting, on its own, the flag, else the
\* variable, else the default, with one exception to that order: a list of
\* patterns or a resolver whose flag is given but empty has the value of its
\* variable, which config.go:147 has take no precedence over a flag
\* (config.go:93-208).
PrecedenceIsRight ==
  Parsed =>
    \A s \in Settings :
      config[s] = IF ByFlag(s) THEN Meaning(s, flag[s])
                  ELSE IF ByEnv(s) THEN Meaning(s, env[s]) ELSE Default[s]

\* What config.go:147 says of the variables, that they "take precedence over
\* default values but not CLI flags": where a flag is given, even an empty one,
\* the setting is what the flag says or the default, whatever the variable.
VariablesYieldToFlags ==
  Parsed =>
    \A s \in Settings :
      FlagGiven(s) => config[s] \in {Meaning(s, flag[s]), Default[s]}

\* The process runs only with patterns that compile, wherever they came from,
\* and it exits only over a flag or over the patterns that are in effect: a
\* broken list in the environment does no harm under a flag (main.go:258-274).
ExitHasCause ==
  /\ pc = "running" => \A s \in Settings : Type[s] = "patterns" => config[s] \notin Broken
  /\ pc = "exit1" => \E s \in Settings :
                       /\ Type[s] = "patterns"
                       /\ flag[s] \in Broken \/ (env[s] \in Broken /\ ~ ByFlag(s))
=============================================================================

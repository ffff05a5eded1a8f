SPECIFICATION Spec
CONSTANTS
  Settings <- MCSettings
  Type <- MCType
  Default <- MCDefault
  EnvTexts <- MCEnvTexts
  FlagTexts <- MCFlagTexts
  Broken = {"broken list"}
CHECK_DEADLOCK FALSE
INVARIANTS
  VariablesYieldToFlags

------------------------------- MODULE MCConfig -------------------------------
(***************************************************************************)
(* One setting of each type, with what a variable and a flag may hold for  *)
(* it; the values differ, so that it shows where a setting came from.      *)
(***************************************************************************)
EXTENDS Config

MCSettings == {"request-patterns", "explicit-resolver", "log-format",
               "dns-port", "log-requests"}

MCType ==
  [s \in MCSettings |->
     CASE s = "request-patterns" -> "patterns" [] s = "explicit-resolver" -> "resolver"
       [] s = "log-format" -> "string" [] s = "dns-port" -> "port"
       [] s = "log-requests" -> "switch"]

MCDefault ==
  [s \in MCSettings |->
     CASE s = "request-patterns" -> "no patterns" [] s = "explicit-resolver" -> ""
       [] s = "log-format" -> "text" [] s = "dns-port" -> "5353"
       [] s = "log-requests" -> "on"]

MCEnvTexts ==
  [s \in MCSettings |->
     CASE s = "request-patterns" -> {Unset, Lines, "env list", "broken list"}
       [] s = "explicit-resolver" -> {Unset, Empty, "env server"}
       [] s = "log-format" -> {Unset, "json"}
       [] s = "dns-port" -> {Unset, Junk, "53"}
       [] s = "log-requests" -> {Unset, "1", "false"}]

MCFlagTexts ==
  [s \in MCSettings |->
     CASE s = "request-patterns" -> {Unset, Empty, Lines, "flag list"}
       [] s = "explicit-resolver" -> {Unset, Empty, "flag server"}
       [] s = "log-format" -> {Unset, Empty}
       [] s = "dns-port" -> {Unset, Junk, "5300"}
       [] s = "log-requests" -> {Unset, "true", "false"}]
=============================================================================

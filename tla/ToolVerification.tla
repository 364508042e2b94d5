---------------------------- MODULE ToolVerification ----------------------------
(***************************************************************************)
(* What a tool declares of itself, and what the three places that judge it *)
(* by that make of it: the stages of VerificationPipeline, the eligibility *)
(* of ToolPolicyGate, and the readiness and the plan of an installation.   *)
(* Text is reduced to whether it is there, and the capabilities to whether *)
(* one of them holds a prohibited marker.                                  *)
(***************************************************************************)

SourceType ==
  {"official_website", "official_github", "official_package_registry",
   "other_reputable", "unknown"}

TrustedSourceTypes == SourceType \ {"other_reputable", "unknown"}

SupportedPlatforms == {"WINDOWS", "LINUX", "MACOS", "ANDROID_TERMUX"}

Platform == SupportedPlatforms \cup {"UNKNOWN"}

ToolMetadata ==
  [described    : BOOLEAN,           \* name and description
   source       : SourceType,
   linked       : BOOLEAN,           \* source_url
   versioned    : BOOLEAN,
   platforms    : SUBSET Platform,
   licensed     : BOOLEAN,
   dependencies : BOOLEAN,           \* it declares some
   prohibited   : BOOLEAN]           \* _PROHIBITED_CAPABILITY_MARKERS

\* An entry of the curated catalog, as a candidate: its version is not recorded.
Curated(platforms) ==
  [described |-> TRUE, source |-> "official_website", linked |-> TRUE,
   versioned |-> FALSE, platforms |-> platforms, licensed |-> TRUE,
   dependencies |-> FALSE, prohibited |-> FALSE]

-----------------------------------------------------------------------------
(* VerificationPipeline.                                                   *)

VerificationStage ==
  {"collect_metadata", "verify_source", "verify_version", "check_platform",
   "check_license", "check_dependencies", "security_policy_review"}

VerificationResult == {"verified", "unverified", "failed", "unknown"}

KnownIf(present) == IF present THEN "verified" ELSE "unknown"

VerifySource(m) ==
  CASE m.source \in TrustedSourceTypes /\ m.linked -> "verified"
    [] m.source = "other_reputable" -> "unverified"
    [] OTHER -> "unknown"

CheckPlatform(m) ==
  CASE m.platforms = {} -> "unknown"
    [] m.platforms # {} /\ m.platforms \subseteq SupportedPlatforms -> "verified"
    [] OTHER -> "unverified"

\* Dependencies are recorded, never resolved.
CheckDependencies(m) == IF m.dependencies THEN "unverified" ELSE "verified"

SecurityPolicyReview(m) == IF m.prohibited THEN "failed" ELSE "verified"

Report(m) ==
  [s \in VerificationStage |->
     CASE s = "collect_metadata"       -> KnownIf(m.described)
       [] s = "verify_source"          -> VerifySource(m)
       [] s = "verify_version"         -> KnownIf(m.versioned)
       [] s = "check_platform"         -> CheckPlatform(m)
       [] s = "check_license"          -> KnownIf(m.licensed)
       [] s = "check_dependencies"     -> CheckDependencies(m)
       [] s = "security_policy_review" -> SecurityPolicyReview(m)]

Found(report, result) == \E s \in VerificationStage : report[s] = result

\* The findings without the one there is most of: what nobody recorded.
OverallOfKnown(report) ==
  CASE Found(report, "failed") -> "failed"
    [] ~Found(report, "failed") /\ Found(report, "unverified") -> "unverified"
    [] OTHER -> "verified"

\* The most cautious result wins.
Overall(report) ==
  CASE Found(report, "failed") -> "failed"
    [] ~Found(report, "failed") /\ Found(report, "unknown") -> "unknown"
    [] ~Found(report, "failed") /\ ~Found(report, "unknown")
         /\ Found(report, "unverified") -> "unverified"
    [] OTHER -> "verified"

-----------------------------------------------------------------------------
(* ToolPolicyGate.  It looks at the security review of the recorded report *)
(* as well, which fails exactly if a marker is declared.                   *)

Eligible(m, trustStatus, platform) ==
  /\ trustStatus = "approved"
  /\ ~m.prohibited
  /\ platform \in m.platforms

-----------------------------------------------------------------------------
(* ReadinessChecker, EnvironmentInspector and InstallationPlanner.         *)

\* _CANDIDATES_BY_PLATFORM, which the planner's _PLATFORM_PREFERENCE repeats.
Managers(platform) ==
  {"pip"} \cup CASE platform = "WINDOWS"        -> {"winget"}
                 [] platform = "LINUX"          -> {"apt", "dnf", "pacman"}
                 [] platform = "MACOS"          -> {"brew"}
                 [] platform = "ANDROID_TERMUX" -> {"termux_pkg"}
                 [] OTHER                       -> {}

\* The critical checks of the eleven: the rest pass or are not critical.  The
\* policy denies nothing else to an authorized target here.
PassesChecks(m, trustStatus, platform, authorized) ==
  /\ m.source # "unknown" /\ m.source \in TrustedSourceTypes
  /\ platform \in m.platforms
  /\ trustStatus = "approved"
  /\ authorized

\* What was detected on the server must serve the target's platform.
PlanPossible(m, target, path) ==
  /\ target \in m.platforms
  /\ Managers(target) \cap path # {}
=============================================================================

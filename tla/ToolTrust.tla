------------------------------- MODULE ToolTrust -------------------------------
(***************************************************************************)
(* The trust status of the tools in the registry, as the requests of       *)
(* routes/tools.py change it.  A status is overwritten without a look at   *)
(* the one it replaces; only approve looks, and then it looks before it    *)
(* writes: between the two other requests may be served.                   *)
(*                                                                         *)
(* What verification finds depends on the metadata a tool was registered   *)
(* with and nothing else, and these never change: they are a constant.     *)
(***************************************************************************)
EXTENDS ToolVerification

CONSTANTS
  Tools,      \* tools that may be registered
  Metadata,   \* what each is registered with
  Reviewers,  \* handlers of approve requests
  None        \* "no tool", and in modules that extend this one "no one"

ASSUME MetadataAssumption ==
  /\ Metadata \in [Tools -> ToolMetadata]
  /\ None \notin Tools

VARIABLES
  trust,      \* the trust status of each tool
  approving   \* the tool each approve request found VERIFIED and will write

trustVars == <<trust, approving>>

TrustStatus ==
  {"unregistered", "discovered", "under_review", "verified", "approved",
   "blocked", "deprecated"}

TrustTypeOK ==
  /\ trust \in [Tools -> TrustStatus]
  /\ approving \in [Reviewers -> Tools \cup {None}]

TrustInit ==
  /\ trust = [t \in Tools |-> "unregistered"]
  /\ approving = [v \in Reviewers |-> None]

\* VerificationReport.overall() of each tool.
Verdict == [t \in Tools |-> Overall(Report(Metadata[t]))]

Registered(t) == trust[t] # "unregistered"

UpdateTrustStatus(t, status) == trust' = [trust EXCEPT ![t] = status]

RegisterTool(t) ==
  /\ ~Registered(t)
  /\ UpdateTrustStatus(t, "discovered")
  /\ UNCHANGED approving

\* The finding itself as the new status.
TrustVerbatim(overall) == overall

TrustAfter(overall) ==
  CASE overall = "failed" -> "blocked"
    [] overall = "verified" -> "verified"
    [] OTHER -> "under_review"

\* Whatever the status was.
VerifyTool(t) ==
  /\ Registered(t)
  /\ UpdateTrustStatus(t, TrustAfter(Verdict[t]))
  /\ UNCHANGED approving

\* approve up to its check, and from there on.
ApproveTool(v, t) ==
  /\ approving[v] = None /\ trust[t] = "verified"
  /\ approving' = [approving EXCEPT ![v] = t]
  /\ UNCHANGED trust

GrantApproval(v) ==
  /\ approving[v] # None
  /\ UpdateTrustStatus(approving[v], "approved")
  /\ approving' = [approving EXCEPT ![v] = None]

BlockTool(t) ==
  /\ Registered(t)
  /\ UpdateTrustStatus(t, "blocked")
  /\ UNCHANGED approving

DeprecateTool(t) ==
  /\ Registered(t)
  /\ UpdateTrustStatus(t, "deprecated")
  /\ UNCHANGED approving

TrustNext ==
  \/ \E t \in Tools :
       \/ RegisterTool(t) \/ VerifyTool(t) \/ BlockTool(t) \/ DeprecateTool(t)
       \/ \E v \in Reviewers : ApproveTool(v, t)
  \/ \E v \in Reviewers : GrantApproval(v)

-----------------------------------------------------------------------------

\* However approvals, verifications and blocks overlap, a tool the gate lets pass
\* for a platform was confirmed in every stage of its verification, and
\* declares that platform and no unrecognized one.
ApprovalEarned ==
  \A t \in Tools, p \in Platform :
    Eligible(Metadata[t], trust[t], p) =>
      /\ \A s \in VerificationStage : Report(Metadata[t])[s] = "verified"
      /\ p \in Metadata[t].platforms /\ Metadata[t].platforms \subseteq SupportedPlatforms
=============================================================================

------------------------------- MODULE GoModules -------------------------------
(***************************************************************************)
(* scripts/download_go_modules.py in a stage of the Dockerfile: the        *)
(* modules of a Go program are fetched in at most three attempts, then the *)
(* program is built without the network.  The first attempt asks for the   *)
(* whole module graph, the others for the modules that failed.  Go is not  *)
(* part of the repository: it reports errors as it likes, and does not     *)
(* know of a module that is named only by a go.mod file it could not read. *)
(***************************************************************************)
EXTENDS Integers

CONSTANTS
  Modules,
  Roots,      \* modules the program names in its go.mod
  Requires,   \* module -> modules its go.mod names
  All         \* the coordinate "all"

ASSUME GoAssumption ==
  /\ Roots \subseteq Modules
  /\ Requires \in [Modules -> SUBSET Modules]
  /\ \A pins \in SUBSET Modules : All # pins

Attempts == 3

VARIABLES
  goPc,         \* the next step of the stage
  coordinates,  \* All or the pins to ask for
  goAttempt,
  cached,       \* modules in the cache of the stage
  errors,       \* failed modules that Go listed -> kind of the error
  diagnostics,  \* whether stderr is what the listed .mod errors explain
  hidden        \* history: modules whose go.mod the first attempt could not read

goVars == <<goPc, coordinates, goAttempt, cached, errors, diagnostics, hidden>>

\* The modules Go finds when it cannot read the go.mod files of cut.
Reach(cut) ==
  {m \in Modules : \A known \in SUBSET Modules :
     Roots \subseteq known /\ (\A k \in known \ cut : Requires[k] \subseteq known)
       => m \in known}

\* What becomes of a module that is asked for: an error of the transport of its
\* zip, of the checksum database, or of its .mod file is recognised; another one is
\* not; and an error may be on stderr only.
Outcomes == {"stored", "zip", "mod", "unknown", "unlisted"}
Recognised == {"zip", "mod"}

-----------------------------------------------------------------------------
(* download: one run of go mod download -json.                             *)

Asked(outcome) ==
  IF coordinates = All THEN Reach({m \in Modules : outcome[m] = "mod"}) ELSE coordinates

GoDownload ==
  /\ goPc = "download"
  /\ \E outcome \in [Modules -> Outcomes] :
       LET failed == {m \in Asked(outcome) \ cached : outcome[m] # "stored"}
           listed == {m \in failed : outcome[m] # "unlisted"} IN
       /\ cached' = cached \cup (Asked(outcome) \ failed)
       /\ errors' = [m \in listed |-> outcome[m]]
       /\ hidden' = IF coordinates = All
                    THEN {m \in Modules : outcome[m] = "mod"} ELSE hidden
       /\ \/ failed = {} /\ goPc' = "offline" /\ diagnostics' = TRUE
          \/ /\ goPc' = "classify"
             /\ diagnostics' \in BOOLEAN
             /\ diagnostics' => listed = failed
          \/ goPc' = "failed" /\ diagnostics' = FALSE   \* killed by a signal
  /\ UNCHANGED <<coordinates, goAttempt>>

\* interrupted_downloads.  Fault: errors it does not recognise are left out.
RecognisedPins == {m \in DOMAIN errors : errors[m] \in Recognised}
InterruptedDownloads ==
  IF diagnostics /\ \A m \in DOMAIN errors : errors[m] \in Recognised
  THEN DOMAIN errors ELSE {}

RetryPins ==
  /\ goPc = "classify"
  /\ InterruptedDownloads # {} /\ goAttempt < Attempts
  /\ coordinates' = InterruptedDownloads
  /\ goAttempt' = goAttempt + 1
  /\ goPc' = "download"
  /\ UNCHANGED <<cached, errors, diagnostics, hidden>>

GiveUpPins ==
  /\ goPc = "classify"
  /\ InterruptedDownloads = {} \/ goAttempt = Attempts
  /\ goPc' = "failed"
  /\ UNCHANGED <<coordinates, goAttempt, cached, errors, diagnostics, hidden>>

\* GOPROXY=off go build, mod tidy, mod verify: some modules are needed, and
\* nothing is fetched.  The stage goes, its program stays.
BuildOffline ==
  /\ goPc = "offline"
  /\ \E needed \in SUBSET Reach({}) :
       goPc' = IF needed \subseteq cached THEN "built" ELSE "failed"
  /\ coordinates' = All /\ goAttempt' = 1 /\ cached' = {}
  /\ errors' = [m \in {} |-> "stored"] /\ diagnostics' = TRUE /\ hidden' = {}

-----------------------------------------------------------------------------
GoInit ==
  /\ goPc = "download"
  /\ coordinates = All /\ goAttempt = 1
  /\ cached = {}
  /\ errors = [m \in {} |-> "stored"] /\ diagnostics = TRUE
  /\ hidden = {}

GoNext == GoDownload \/ RetryPins \/ GiveUpPins \/ BuildOffline

GoSpec == GoInit /\ [][GoNext]_goVars

\* Every variable has its type.
GoTypeOK ==
  /\ goPc \in {"download", "classify", "offline", "built", "failed"}
  /\ coordinates \in (SUBSET Modules) \cup {All}
  /\ goAttempt \in 1..Attempts
  /\ cached \subseteq Modules /\ hidden \subseteq Modules
  /\ DOMAIN errors \subseteq Modules

-----------------------------------------------------------------------------
(* What the prefetch must guarantee.                                       *)

\* download, interrupted_downloads: when the prefetch reports success after
\* however many attempts, every module of the graph is in the cache, but for
\* those named only by a go.mod file that the first attempt could not read.
PrefetchIsWhole == goPc = "offline" => Reach(hidden) \subseteq cached

=============================================================================

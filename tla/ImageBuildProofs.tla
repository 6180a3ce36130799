---------------------------- MODULE ImageBuildProofs ----------------------------
(***************************************************************************)
(* Proofs about the image build and its two stages, for any module graph,  *)
(* any set of locked artifacts of any size, and whatever Go, the proxies,  *)
(* the Galaxy server and the installer do.  Each stage has an inductive    *)
(* invariant of its own; the build takes steps of one stage at a time, so  *)
(* it implements both stages and has what each of them guarantees.         *)
(***************************************************************************)
EXTENDS ImageBuild, TLAPS

-----------------------------------------------------------------------------
(* The Go stage: what is not in the cache yet is asked for next, unless    *)
(* the prefetch fails.                                                     *)

\* All that the prefetch knows of is in the cache or about to be asked for.
Accounted ==
  /\ goPc = "download" /\ coordinates # All => Reach(hidden) \subseteq cached \cup coordinates
  /\ goPc = "classify" /\ diagnostics => Reach(hidden) \subseteq cached \cup DOMAIN errors

GoIInv == GoTypeOK /\ Accounted /\ PrefetchIsWhole

\* A retry before the last attempt stays within the attempts.
LEMMA AttemptsCount ==
  ASSUME NEW a \in 1..Attempts, a < Attempts
  PROVE  a + 1 \in 1..Attempts
  BY DEF Attempts

\* What Go finds is modules.
LEMMA ReachType == \A cut : Reach(cut) \subseteq Modules
  BY DEF Reach

\* The initial state satisfies the inductive invariant.
LEMMA GoInitEstablishes == GoInit => GoIInv
<1> SUFFICES ASSUME GoInit PROVE GoIInv
  OBVIOUS
<1>1. DOMAIN errors \subseteq Modules
  BY DEF GoInit
<1>2. goAttempt \in 1..Attempts
  BY DEF GoInit, Attempts
<1>3. GoTypeOK
  BY <1>1, <1>2 DEF GoInit, GoTypeOK
<1>4. goPc = "download" /\ coordinates = All
  BY DEF GoInit
<1> QED
  BY <1>3, <1>4 DEF GoIInv, Accounted, PrefetchIsWhole

\* A run of Go stores what it asked for, or says what failed.
LEMMA GoDownloadKeepsInvariant ==
  ASSUME GoIInv, GoDownload
  PROVE  GoIInv'
<1> USE DEF GoIInv
<1>1. PICK outcome \in [Modules -> Outcomes] :
        LET failed == {m \in Asked(outcome) \ cached : outcome[m] # "stored"}
            listed == {m \in failed : outcome[m] # "unlisted"} IN
        /\ cached' = cached \cup (Asked(outcome) \ failed)
        /\ errors' = [m \in listed |-> outcome[m]]
        /\ hidden' = IF coordinates = All
                     THEN {m \in Modules : outcome[m] = "mod"} ELSE hidden
        /\ \/ failed = {} /\ goPc' = "offline" /\ diagnostics' = TRUE
           \/ /\ goPc' = "classify"
              /\ diagnostics' \in BOOLEAN
              /\ diagnostics' => listed = failed
           \/ goPc' = "failed" /\ diagnostics' = FALSE
  BY DEF GoDownload
<1> DEFINE failed == {m \in Asked(outcome) \ cached : outcome[m] # "stored"}
           listed == {m \in failed : outcome[m] # "unlisted"}
<1>2. Asked(outcome) \subseteq Modules
  <2>1. CASE coordinates = All
    BY <2>1, ReachType DEF Asked
  <2>2. CASE coordinates # All
    <3>1. coordinates \in SUBSET Modules
      BY <2>2 DEF GoTypeOK
    <3> QED
      BY <2>2, <3>1 DEF Asked
  <2> QED
    BY <2>1, <2>2
<1>3. Reach(hidden') \subseteq cached \cup Asked(outcome)
  <2>1. CASE coordinates = All
    BY <1>1, <2>1 DEF Asked
  <2>2. CASE coordinates # All
    BY <1>1, <2>2 DEF Asked, Accounted, GoDownload
  <2> QED
    BY <2>1, <2>2
<1>4. cached' = cached \cup (Asked(outcome) \ failed) /\ DOMAIN errors' = listed
  BY <1>1
<1>5. Reach(hidden') \subseteq cached' \cup failed
  BY <1>3, <1>4
<1>6. goPc' \in {"offline", "classify", "failed"}
  BY <1>1
<1>7. GoTypeOK'
  BY <1>1, <1>2, <1>4, <1>6 DEF GoTypeOK, GoDownload
<1>8. goPc' = "offline" => failed = {}
  BY <1>1
<1>9. goPc' = "classify" /\ diagnostics' => listed = failed
  BY <1>1
<1> HIDE DEF failed, listed
<1> QED
  BY <1>4, <1>5, <1>6, <1>7, <1>8, <1>9 DEF Accounted, PrefetchIsWhole

\* Every step keeps the inductive invariant.
LEMMA GoStepKeepsInvariant == GoIInv /\ [GoNext]_goVars => GoIInv'
<1> SUFFICES ASSUME GoIInv, [GoNext]_goVars PROVE GoIInv'
  OBVIOUS
<1> USE DEF GoIInv
<1>1. CASE GoDownload
  BY <1>1, GoDownloadKeepsInvariant
<1>2. CASE RetryPins
  <2> USE <1>2 DEF RetryPins
  <2>1. diagnostics /\ coordinates' = DOMAIN errors
    BY DEF InterruptedDownloads
  <2>2. goAttempt' \in 1..Attempts
    <3>1. goAttempt \in 1..Attempts /\ goAttempt < Attempts /\ goAttempt' = goAttempt + 1
      BY DEF GoTypeOK
    <3> HIDE DEF RetryPins
    <3> QED
      BY <3>1, AttemptsCount
  <2>3. GoTypeOK'
    BY <2>1, <2>2 DEF GoTypeOK
  <2> QED
    BY <2>1, <2>3 DEF Accounted, PrefetchIsWhole
<1>3. CASE GiveUpPins
  BY <1>3 DEF GiveUpPins, GoTypeOK, Accounted, PrefetchIsWhole
<1>4. CASE BuildOffline
  <2>1. goPc' \in {"built", "failed"} /\ DOMAIN errors' = {}
    BY <1>4 DEF BuildOffline
  <2>2. GoTypeOK'
    BY <1>4, <2>1 DEF BuildOffline, GoTypeOK, Attempts
  <2> QED
    BY <2>1, <2>2 DEF Accounted, PrefetchIsWhole
<1>5. CASE UNCHANGED goVars
  BY <1>5 DEF goVars, GoTypeOK, Accounted, PrefetchIsWhole
<1> QED
  BY <1>1, <1>2, <1>3, <1>4, <1>5 DEF GoNext

\* The inductive invariant holds in every reachable state.
THEOREM GoInvariance == GoSpec => []GoIInv
  BY GoInitEstablishes, GoStepKeepsInvariant, PTL DEF GoSpec

\* download: a prefetch that succeeds has fetched every module it knows of.
THEOREM WholePrefetch == GoSpec => []PrefetchIsWhole
<1>1. GoIInv => PrefetchIsWhole
  BY DEF GoIInv
<1> QED
  BY <1>1, GoInvariance, PTL

-----------------------------------------------------------------------------
(* The last stage.  The inductive invariant says which archives in the     *)
(* staging directory can be unverified, what the one being read holds, and *)
(* that a refusal ends the build.                                          *)

InBody == {"headers", "read", "write", "close"}
Downloading == {"request", "failed attempt"} \cup InBody

\* The download under way: the file has what was received, and no operation of
\* the network is.
Reading ==
  /\ pc \in Downloading => current \in Artifacts
  /\ pc \in InBody => response \in Responses /\ network = FALSE
  /\ pc = "headers" => received = 0
  /\ pc \in {"read", "close"} =>
       /\ staging[current] = [stored |-> received, good |-> response.good]
       /\ received <= Size
  /\ pc = "write" => \E n \in 0..Size : staging[current] = [stored |-> n, good |-> response.good]

\* Only the archive being downloaded can be unverified, and the installer gets
\* all the archives, verified.
Staged ==
  /\ \A a \in Artifacts :
       staging[a] \in {None, Right}
         \/ (a = current /\ pc \in {"read", "write", "close", "failed attempt"})
  /\ pc = "install" => \A a \in Artifacts : staging[a] = Right

\* A refused artifact ends the build: its error did not come from the network.
Refusal == refused = {} \/ pc = "failed" \/ (pc = "failed attempt" /\ network = FALSE)

IInv == TypeOK /\ Reading /\ Staged /\ Refusal /\ InstalledIsVerified /\ BuiltImageIsLocked

\* The archive as it is meant to be is one, and not the absence of one.
LEMMA RightIsArchive == Right \in Archives /\ Right # None
<1>1. Size \in 0..Size
  BY ConstantsAssumption
<1>2. Right \in Archives
  BY <1>1 DEF Right, Archives
<1> QED
  BY <1>2, ConstantsAssumption

\* The initial states satisfy the inductive invariant.
LEMMA InitEstablishes == Init => IInv
<1> SUFFICES ASSUME Init PROVE IInv
  OBVIOUS
<1>1. staging \in [Artifacts -> Archives \cup {None}] /\ \A a \in Artifacts : staging[a] = None
  BY DEF Init, Nothing
<1>2. /\ installed \in [Artifacts \cup {Other} -> Archives \cup {None}]
      /\ \A a \in Artifacts : installed[a] = None
  <2>1. CASE installed = [c \in Artifacts \cup {Other} |-> None]
    BY <2>1
  <2>2. CASE installed = [c \in Artifacts \cup {Other} |-> IF c = Other THEN Right ELSE None]
    BY <2>2, RightIsArchive, ConstantsAssumption
  <2> QED
    BY <2>1, <2>2 DEF Init
<1>3. TypeOK
  <2>1. received \in 0..(Size + 1) /\ attempt \in 1..DownloadAttempts
    BY ConstantsAssumption DEF Init, DownloadAttempts
  <2> QED
    BY <1>1, <1>2, <2>1 DEF Init, TypeOK
<1>4. Reading /\ Staged /\ Refusal
  BY <1>1 DEF Init, Reading, Staged, Refusal, Downloading, InBody
<1>5. InstalledIsVerified /\ BuiltImageIsLocked
  BY <1>2 DEF Init, InstalledIsVerified, BuiltImageIsLocked
<1> QED
  BY <1>3, <1>4, <1>5 DEF IInv

\* The staging directory without an archive.
LEMMA NothingIsEmpty ==
  Nothing \in [Artifacts -> Archives \cup {None}] /\ \A a \in Artifacts : Nothing[a] = None
  BY DEF Nothing

\* A failing attempt keeps the invariant: an artifact it refuses is not one the
\* network failed on.
LEMMA FailureKeepsInvariant ==
  ASSUME IInv, pc \in Downloading, pc # "failed attempt",
         pc' = "failed attempt", error' \in Looks, network' \in BOOLEAN,
         refused' = refused \/ (refused' = refused \cup {current} /\ network' = FALSE),
         current' = current, attempt' = attempt, response' = response,
         received' \in 0..(Size + 1),
         staging' = staging \/ staging' = [staging EXCEPT ![current] = None],
         UNCHANGED image
  PROVE  IInv'
<1> USE DEF IInv
<1>1. current \in Artifacts
  BY DEF Reading
<1>2. refused = {}
  BY DEF Refusal, Downloading, InBody
<1>3. staging' \in [Artifacts -> Archives \cup {None}]
  BY <1>1 DEF TypeOK
<1>4. TypeOK'
  BY <1>1, <1>2, <1>3 DEF TypeOK, image
<1>5. Reading' /\ Refusal'
  BY <1>1, <1>2 DEF Reading, Refusal, Downloading, InBody
<1>6. Staged'
  BY <1>1 DEF Staged, TypeOK
<1> QED
  BY <1>4, <1>5, <1>6 DEF image, InstalledIsVerified, BuiltImageIsLocked

\* A refusal after the headers keeps the invariant.
LEMMA RefusalKeepsInvariant ==
  ASSUME IInv, pc \in InBody, Reject \/ LocalFails, UNCHANGED <<download, staging, image>>
  PROVE  IInv'
<1>1. PICK looks \in Looks : Refuse(looks)
  BY DEF Reject, LocalFails, Looks
<1>2. network = FALSE /\ received \in 0..(Size + 1)
  BY DEF IInv, Reading, TypeOK
<1>3. /\ pc' = "failed attempt" /\ error' \in Looks
      /\ network' = FALSE /\ refused' = refused \cup {current}
  BY <1>1, <1>2 DEF Refuse, FailAttempt, Goto
<1>4. pc \in Downloading /\ pc # "failed attempt"
  BY DEF Downloading, InBody
<1> QED
  BY <1>2, <1>3, <1>4, FailureKeepsInvariant DEF download

\* The choice of the next artifact keeps the invariant: without one left all
\* archives are verified.
LEMMA ChoiceKeepsInvariant ==
  ASSUME IInv, NextArtifact
  PROVE  IInv'
<1> USE DEF IInv, NextArtifact, Goto
<1>1. \A a \in Artifacts : staging[a] \in {None, Right}
  BY DEF Staged
<1>2. pc' = "request" => current' \in Artifacts
  OBVIOUS
<1>3. pc' \in {"request", "install"}
  OBVIOUS
<1>4. TypeOK'
  <2>1. attempt' \in 1..DownloadAttempts
    BY DEF TypeOK, DownloadAttempts
  <2>2. current' \in Artifacts \cup {None}
    BY DEF TypeOK
  <2> QED
    BY <1>3, <2>1, <2>2 DEF TypeOK, image, failures
<1>5. Reading' /\ Refusal'
  BY <1>2, <1>3 DEF Reading, Refusal, Downloading, InBody, failures
<1>6. Staged'
  BY <1>1, <1>3 DEF Staged
<1> QED
  BY <1>3, <1>4, <1>5, <1>6 DEF image, InstalledIsVerified, BuiltImageIsLocked

\* A request starts from an empty place in the staging directory.
LEMMA RequestKeepsInvariant ==
  ASSUME IInv, Request
  PROVE  IInv'
<1> USE DEF IInv, Request
<1>1. current \in Artifacts /\ received' \in 0..(Size + 1) /\ refused = {}
  BY ConstantsAssumption DEF Reading, Downloading, Refusal
<1>2. CASE NetworkFails /\ staging' = [staging EXCEPT ![current] = None] /\ UNCHANGED response
  <2>1. /\ pc' = "failed attempt" /\ error' \in Looks /\ network' = TRUE
        /\ UNCHANGED <<refused, current, attempt, image>>
    BY <1>2 DEF NetworkFails, FailAttempt, Goto
  <2>2. pc \in Downloading
    BY DEF Downloading
  <2> QED
    BY <1>1, <1>2, <2>1, <2>2, FailureKeepsInvariant
<1>3. CASE /\ staging' = [staging EXCEPT ![current] = None]
           /\ response' \in Responses /\ network' = AfterNetwork /\ Goto("headers")
           /\ UNCHANGED <<error, refused>>
  <2> USE <1>3 DEF Goto, AfterNetwork
  <2>1. staging' \in [Artifacts -> Archives \cup {None}]
    BY <1>1 DEF TypeOK
  <2>2. TypeOK'
    BY <1>1, <2>1 DEF TypeOK, image
  <2>3. Reading' /\ Refusal'
    BY <1>1 DEF Reading, Refusal, Downloading, InBody
  <2>4. Staged'
    BY <1>1 DEF Staged, TypeOK
  <2> QED
    BY <2>2, <2>3, <2>4 DEF image, InstalledIsVerified, BuiltImageIsLocked
<1>4. CASE Goto("failed") /\ staging' = Nothing /\ UNCHANGED <<response, failures>>
  <2> USE <1>4, NothingIsEmpty DEF Goto, failures
  <2>1. TypeOK'
    BY <1>1 DEF TypeOK, image
  <2>2. Reading' /\ Refusal' /\ Staged'
    BY DEF Reading, Refusal, Staged, Downloading, InBody
  <2> QED
    BY <2>1, <2>2 DEF image, InstalledIsVerified, BuiltImageIsLocked
<1> QED
  BY <1>2, <1>3, <1>4

\* The check of the declared length opens an empty file or fails.
LEMMA CheckKeepsInvariant ==
  ASSUME IInv, CheckLength
  PROVE  IInv'
<1> USE DEF IInv, CheckLength
<1>1. /\ current \in Artifacts /\ response \in Responses /\ received = 0 /\ refused = {}
      /\ network = FALSE
  BY DEF Reading, Downloading, InBody, Refusal
<1>2. CASE (Reject \/ LocalFails) /\ UNCHANGED staging
  BY <1>2, RefusalKeepsInvariant DEF InBody
<1>3. CASE /\ staging' = [staging EXCEPT ![current] = [stored |-> 0, good |-> response.good]]
           /\ Goto("read")
           /\ UNCHANGED failures
  <2> USE <1>3 DEF Goto, download, failures
  <2>1. response.good \in BOOLEAN
    BY <1>1 DEF Responses
  <2>2. 0 \in 0..Size
    BY ConstantsAssumption
  <2>3. [stored |-> 0, good |-> response.good] \in Archives
    BY <2>1, <2>2 DEF Archives
  <2>4. staging' \in [Artifacts -> Archives \cup {None}]
    BY <2>3 DEF TypeOK
  <2>5. TypeOK'
    BY <2>4 DEF TypeOK, image
  <2>6. Reading' /\ Refusal'
    BY <1>1, ConstantsAssumption DEF Reading, Refusal, InBody, TypeOK
  <2>7. Staged'
    BY <1>1 DEF Staged, TypeOK
  <2> QED
    BY <2>5, <2>6, <2>7 DEF image, InstalledIsVerified, BuiltImageIsLocked
<1> QED
  BY <1>2, <1>3

\* A read receives a chunk or reaches the end, and the flag is reset.
LEMMA ReadKeepsInvariant ==
  ASSUME IInv, Read
  PROVE  IInv'
<1> USE DEF IInv, Read, Goto, AfterNetwork
<1>1. /\ current \in Artifacts /\ response \in Responses /\ refused = {}
      /\ staging[current] = [stored |-> received, good |-> response.good]
      /\ received \in Nat /\ received <= Size
  BY DEF Reading, Downloading, InBody, Refusal, TypeOK
<1>2. response.body \in 0..(Size + 1)
  BY <1>1 DEF Responses
<1>3. received' \in 0..(Size + 1)
  <2>1. CASE \E n \in 1..(response.body - received) : received' = received + n
    <3>1. PICK n \in 1..(response.body - received) : received' = received + n
      BY <2>1
    <3> HIDE DEF IInv, Read
    <3> QED
      BY <1>1, <1>2, <3>1, ConstantsAssumption
  <2>2. CASE UNCHANGED received
    BY <2>2 DEF TypeOK
  <2> QED
    BY <2>1, <2>2
<1>4. TypeOK'
  BY <1>3 DEF TypeOK, image
<1>5. received \in 0..Size
  BY <1>1
<1>6. Reading' /\ Refusal'
  BY <1>1, <1>5 DEF Reading, Refusal, InBody
<1>7. Staged'
  BY DEF Staged
<1> QED
  BY <1>4, <1>6, <1>7 DEF image, InstalledIsVerified, BuiltImageIsLocked

\* A read that fails refuses nothing.
LEMMA ReadFailureKeepsInvariant ==
  ASSUME IInv, ReadFails
  PROVE  IInv'
<1>1. /\ pc = "read" /\ pc' = "failed attempt" /\ error' \in Looks /\ network' = TRUE
      /\ UNCHANGED <<refused, download, staging, image>>
  BY DEF ReadFails, NetworkFails, FailAttempt, Goto
<1>2. current \in Artifacts /\ received \in 0..(Size + 1)
  BY <1>1 DEF IInv, TypeOK, Reading, Downloading, InBody
<1>3. pc \in Downloading
  BY <1>1 DEF Downloading, InBody
<1> QED
  BY <1>1, <1>2, <1>3, FailureKeepsInvariant DEF download

\* A chunk is stored if the artifact has not got too long by it.
LEMMA WriteKeepsInvariant ==
  ASSUME IInv, Write
  PROVE  IInv'
<1> USE DEF IInv, Write
<1>1. PICK n \in 0..Size : staging[current] = [stored |-> n, good |-> response.good]
  BY DEF Reading
<1>2. /\ current \in Artifacts /\ response \in Responses /\ refused = {} /\ network = FALSE
      /\ received \in 0..(Size + 1)
  BY DEF Reading, Downloading, InBody, Refusal, TypeOK
<1>3. CASE (Reject \/ LocalFails) /\ UNCHANGED staging
  BY <1>3, RefusalKeepsInvariant DEF InBody
<1>4. CASE /\ ~Oversized
           /\ staging' = [staging EXCEPT ![current].stored = received]
           /\ Goto("read")
           /\ UNCHANGED failures
  <2> USE <1>4 DEF Goto, download, failures
  <2>1. received \in 0..Size
    BY <1>2, ConstantsAssumption DEF Oversized
  <2>2. staging' = [staging EXCEPT ![current] = [stored |-> received, good |-> response.good]]
    <3>1. [staging[current] EXCEPT !.stored = received] =
            [stored |-> received, good |-> response.good]
      BY <1>1
    <3>2. staging' = [staging EXCEPT ![current] = [staging[current] EXCEPT !.stored = received]]
      OBVIOUS
    <3> QED
      BY <3>1, <3>2
  <2>3. [stored |-> received, good |-> response.good] \in Archives
    BY <1>2, <2>1 DEF Archives, Responses
  <2>4. staging' \in [Artifacts -> Archives \cup {None}]
    BY <2>2, <2>3 DEF TypeOK
  <2>5. TypeOK'
    BY <2>4 DEF TypeOK, image
  <2>6. staging'[current] = [stored |-> received, good |-> response.good]
    BY <1>2, <2>2 DEF TypeOK
  <2>7. Reading' /\ Refusal'
    BY <1>2, <2>1, <2>6 DEF Reading, Refusal, InBody
  <2>8. Staged'
    BY <1>2, <2>2 DEF Staged, TypeOK
  <2> QED
    BY <2>5, <2>7, <2>8 DEF image, InstalledIsVerified, BuiltImageIsLocked
<1> QED
  BY <1>3, <1>4

\* At the end of the body the archive is verified, or the attempt fails.
LEMMA EndKeepsInvariant ==
  ASSUME IInv, EndOfBody
  PROVE  IInv'
<1> USE DEF IInv, EndOfBody
<1>1. current \in Artifacts /\ refused = {}
  BY DEF Reading, Downloading, InBody, Refusal
<1>2. CASE Reject \/ LocalFails
  BY <1>2, RefusalKeepsInvariant DEF InBody
<1>3. CASE DigestMatches /\ Goto("next") /\ UNCHANGED failures
  <2> USE <1>3 DEF Goto, download, failures
  <2>1. TypeOK' /\ Reading' /\ Refusal'
    BY <1>1 DEF TypeOK, image, Reading, Refusal, Downloading, InBody
  <2>2. Staged'
    BY DEF Staged, DigestMatches
  <2> QED
    BY <2>1, <2>2 DEF image, InstalledIsVerified, BuiltImageIsLocked
<1> QED
  BY <1>2, <1>3

\* After a failed attempt the archive goes, and only a temporary error of the
\* network leads to another request.
LEMMA FailedAttemptKeepsInvariant ==
  ASSUME IInv, Retry \/ GiveUp
  PROVE  IInv'
<1> USE DEF IInv, Goto
<1>1. current \in Artifacts /\ attempt \in 1..DownloadAttempts
  BY DEF Retry, GiveUp, Reading, Downloading, TypeOK
<1>2. CASE Retry
  <2> USE <1>2 DEF Retry
  <2>1. attempt' \in 1..DownloadAttempts
    <3>1. attempt < DownloadAttempts /\ attempt' = attempt + 1
      BY DEF AttemptsLeft, NextAttempt
    <3> HIDE DEF Retry, IInv, Goto
    <3> QED
      BY <1>1, <3>1 DEF DownloadAttempts
  <2>2. staging' \in [Artifacts -> Archives \cup {None}]
    BY DEF TypeOK
  <2>3. TypeOK'
    BY <2>1, <2>2 DEF TypeOK, image, failures
  <2>4. Reading' /\ Refusal'
    BY <1>1 DEF Reading, Refusal, RetryAllowed, Downloading, InBody, failures
  <2>5. Staged'
    BY <1>1 DEF Staged, TypeOK
  <2> QED
    BY <2>3, <2>4, <2>5 DEF image, InstalledIsVerified, BuiltImageIsLocked
<1>3. CASE GiveUp
  <2> USE <1>3, NothingIsEmpty DEF GiveUp, download, failures
  <2>1. TypeOK' /\ Reading' /\ Refusal'
    BY DEF TypeOK, image, Reading, Refusal, Downloading, InBody
  <2>2. Staged'
    BY DEF Staged
  <2> QED
    BY <2>1, <2>2 DEF image, InstalledIsVerified, BuiltImageIsLocked
<1> QED
  BY <1>2, <1>3

\* Only verified archives are installed, and the inventory accepts the locked
\* set only.
LEMMA InstallationKeepsInvariant ==
  ASSUME IInv, CreatePath \/ Install \/ VerifyInventory
  PROVE  IInv'
<1> USE DEF IInv, Goto
<1>1. CASE CreatePath
  BY <1>1
  DEF CreatePath, download, failures, TypeOK, Reading, Staged, Refusal, Downloading, InBody,
      InstalledIsVerified, BuiltImageIsLocked
<1>2. CASE Install
  <2> USE <1>2, NothingIsEmpty DEF Install, download, failures
  <2>1. PICK some \in SUBSET Artifacts :
          installed' = [c \in Artifacts \cup {Other} |->
                          IF c \in some THEN staging[c] ELSE installed[c]]
    OBVIOUS
  <2>2. \A a \in Artifacts : staging[a] = Right
    BY DEF Staged
  <2>3. installed' \in [Artifacts \cup {Other} -> Archives \cup {None}]
    BY <2>1, <2>2, RightIsArchive DEF TypeOK
  <2>4. InstalledIsVerified'
    BY <2>1, <2>2 DEF InstalledIsVerified
  <2>5. TypeOK' /\ Reading' /\ Refusal'
    BY <2>3 DEF TypeOK, Reading, Refusal, Downloading, InBody
  <2>6. Staged' /\ BuiltImageIsLocked'
    BY DEF Staged, BuiltImageIsLocked
  <2> QED
    BY <2>4, <2>5, <2>6
<1>3. CASE VerifyInventory
  <2> USE <1>3 DEF VerifyInventory, download, failures, image
  <2>1. TypeOK' /\ Reading' /\ Staged' /\ Refusal' /\ InstalledIsVerified'
    BY DEF TypeOK, Reading, Staged, Refusal, Downloading, InBody, InstalledIsVerified
  <2>2. ASSUME SameInventory, NEW c \in Artifacts \cup {Other}
        PROVE  installed[c] = IF c \in Artifacts THEN Right ELSE None
    BY <2>2, ConstantsAssumption DEF SameInventory, InstalledIsVerified
  <2>3. BuiltImageIsLocked'
    BY <2>2 DEF BuiltImageIsLocked
  <2> QED
    BY <2>1, <2>3
<1> QED
  BY <1>1, <1>2, <1>3

\* Every step keeps the inductive invariant.
LEMMA StepKeepsInvariant == IInv /\ [Next]_vars => IInv'
<1> SUFFICES ASSUME IInv, [Next]_vars PROVE IInv'
  OBVIOUS
<1>1. CASE NextArtifact
  BY <1>1, ChoiceKeepsInvariant
<1>2. CASE Request
  BY <1>2, RequestKeepsInvariant
<1>3. CASE CheckLength
  BY <1>3, CheckKeepsInvariant
<1>4. CASE Read
  BY <1>4, ReadKeepsInvariant
<1>5. CASE ReadFails
  BY <1>5, ReadFailureKeepsInvariant
<1>10. CASE Write
  BY <1>10, WriteKeepsInvariant
<1>6. CASE EndOfBody
  BY <1>6, EndKeepsInvariant
<1>7. CASE Retry \/ GiveUp
  BY <1>7, FailedAttemptKeepsInvariant
<1>8. CASE CreatePath \/ Install \/ VerifyInventory
  BY <1>8, InstallationKeepsInvariant
<1>9. CASE UNCHANGED vars
  <2> USE <1>9 DEF vars, download, failures, image, IInv
  <2>1. TypeOK' /\ Reading'
    BY DEF TypeOK, Reading, Downloading, InBody
  <2>2. Staged' /\ Refusal'
    BY DEF Staged, Refusal
  <2>3. InstalledIsVerified' /\ BuiltImageIsLocked'
    BY DEF InstalledIsVerified, BuiltImageIsLocked
  <2> QED
    BY <2>1, <2>2, <2>3
<1> QED
  BY <1>1, <1>2, <1>3, <1>4, <1>5, <1>6, <1>7, <1>8, <1>9, <1>10 DEF Next

\* The inductive invariant holds in every reachable state.
THEOREM Invariance == Spec => []IInv
  BY InitEstablishes, StepKeepsInvariant, PTL DEF Spec

\* Every variable keeps its type.
THEOREM TypeCorrect == Spec => []TypeOK
<1>1. IInv => TypeOK
  BY DEF IInv
<1> QED
  BY <1>1, Invariance, PTL

\* Only verified archives reach the collections path, whatever the server sends
\* and the installer does.
THEOREM VerifiedOnly == Spec => []InstalledIsVerified
<1>1. IInv => InstalledIsVerified
  BY DEF IInv
<1> QED
  BY <1>1, Invariance, PTL

\* A build that succeeds has exactly the locked collections.
THEOREM LockedImage == Spec => []BuiltImageIsLocked
<1>1. IInv => BuiltImageIsLocked
  BY DEF IInv
<1> QED
  BY <1>1, Invariance, PTL

\* network_operation: an artifact that was rejected or could not be stored is never
\* asked for again, whatever its error looks like.
THEOREM FinalRefusal == Spec => []RefusedIsFinal
<1>1. IInv => RefusedIsFinal
  BY DEF IInv, Refusal, RefusedIsFinal
<1> QED
  BY <1>1, Invariance, PTL

-----------------------------------------------------------------------------
(* The build.                                                              *)

\* A step of the build is a step of one stage, and the other stands still.
LEMMA StagesAreSteps == [BuildNext]_buildVars => [Next]_vars /\ [GoNext]_goVars
<1> SUFFICES ASSUME [BuildNext]_buildVars PROVE [Next]_vars /\ [GoNext]_goVars
  OBVIOUS
<1>1. CASE GoStage
  BY <1>1 DEF GoStage
<1>2. CASE CollectionStage
  BY <1>2 DEF CollectionStage
<1>3. CASE UNCHANGED buildVars
  BY <1>3 DEF buildVars
<1> QED
  BY <1>1, <1>2, <1>3 DEF BuildNext

\* The stages of the Dockerfile: the build implements the prefetch.
THEOREM BuildPrefetches == BuildSpec => GoSpec
  BY StagesAreSteps, PTL DEF BuildSpec, BuildInit, GoSpec

\* The stages of the Dockerfile: the build implements the installation.
THEOREM BuildInstalls == BuildSpec => Spec
  BY StagesAreSteps, PTL DEF BuildSpec, BuildInit, Spec

\* Nothing has been downloaded or installed before the Go stage ended well.
StagesInOrder == pc = "start" \/ goPc = "built"

\* COPY --from: the last stage starts only after the Go stage built, whose result
\* no later step takes away.
THEOREM OrderedStages == BuildSpec => []StagesInOrder
<1>1. BuildInit => StagesInOrder
  BY DEF BuildInit, Init, StagesInOrder
<1>2. StagesInOrder /\ [BuildNext]_buildVars => StagesInOrder'
  <2> SUFFICES ASSUME StagesInOrder, [BuildNext]_buildVars PROVE StagesInOrder'
    OBVIOUS
  <2>1. CASE GoStage
    <3>1. goPc # "built" /\ UNCHANGED pc
      BY <2>1 DEF GoStage, GoNext, GoDownload, RetryPins, GiveUpPins, BuildOffline, vars
    <3> QED
      BY <3>1 DEF StagesInOrder
  <2>2. CASE CollectionStage
    BY <2>2 DEF CollectionStage, StagesInOrder, goVars
  <2>3. CASE UNCHANGED buildVars
    BY <2>3 DEF buildVars, vars, goVars, StagesInOrder
  <2> QED
    BY <2>1, <2>2, <2>3 DEF BuildNext
<1> QED
  BY <1>1, <1>2, PTL DEF BuildSpec

\* What the stages guarantee, the build does: the Go cache is whole, only verified
\* archives are installed, and an image that is built has exactly the locked
\* collections.
THEOREM BuildIsSafe ==
  BuildSpec => [](PrefetchIsWhole /\ InstalledIsVerified /\ BuiltImageIsLocked /\ RefusedIsFinal)
  BY BuildPrefetches, BuildInstalls, WholePrefetch, VerifiedOnly, LockedImage, FinalRefusal, PTL

=============================================================================

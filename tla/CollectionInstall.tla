-------------------------- MODULE CollectionInstall --------------------------
(***************************************************************************)
(* scripts/install_devtools_collections.py and                             *)
(* scripts/devtools_collection_inventory.py, as the Dockerfile runs them:  *)
(* download every locked Galaxy artifact into a staging directory, install *)
(* them all, compare what is installed with the lock.  The server answers  *)
(* as it likes, and any local file operation may fail with an error that   *)
(* looks like one of the network (TimeoutError, ConnectionResetError).     *)
(***************************************************************************)
EXTENDS Integers

CONSTANTS
  Artifacts,  \* the names in the lock
  Other,      \* a collection that is not in the lock
  None,
  Size        \* pieces an artifact has

\* A file in the staging directory or an installed collection.
Archives == [stored : 0..Size, good : BOOLEAN]

ASSUME ConstantsAssumption ==
  /\ Size \in Nat \ {0}
  /\ Other \notin Artifacts
  /\ None \notin Artifacts /\ None \notin Archives

DownloadAttempts == 3

VARIABLES
  pc,         \* the next step
  current,    \* the artifact being downloaded
  attempt,    \* of the current artifact
  response,   \* what the server is going to send
  received,   \* pieces received in this attempt
  staging,    \* artifact -> its archive: pieces and whether they are right
  network,    \* network_operation
  error,      \* what the error of the last attempt looks like
  path,       \* the collections path: there or not
  installed,  \* collections below it: name -> whether it is what the lock names
  refused     \* history: artifacts that were rejected or could not be stored

download == <<current, attempt, response, received>>
failures == <<network, error, refused>>
image == <<path, installed>>
vars == <<pc, download, staging, failures, image>>

Goto(step) == pc' = step

\* The staging directory without an archive.
Nothing == [a \in Artifacts |-> None]

\* What transient_network_error says of an error.
Looks == {"temporary", "permanent"}

\* The archive as it is meant to be.
Right == [stored |-> Size, good |-> TRUE]

-----------------------------------------------------------------------------
(* download_artifact.                                                      *)

NextArtifact ==
  /\ pc = "next"
  /\ \/ /\ \E a \in Artifacts : staging[a] = None
        /\ \E a \in Artifacts : staging[a] = None /\ current' = a
        /\ attempt' = 1
        /\ Goto("request")
     \/ /\ \A a \in Artifacts : staging[a] # None
        /\ Goto("install")
        /\ UNCHANGED <<current, attempt>>
  /\ UNCHANGED <<response, received, staging, failures, image>>

\* An exception reaches the handler, which unlinks the archive and decides
\* whether to try again.
FailAttempt(looks) ==
  /\ error' = looks
  /\ Goto("failed attempt")

\* urlopen or a read fails.
NetworkFails ==
  /\ network' = TRUE
  /\ \E looks \in Looks : FailAttempt(looks)
  /\ UNCHANGED refused

\* The artifact is not the locked one, or a local operation fails.
Refuse(looks) ==
  /\ FailAttempt(looks)
  /\ refused' = refused \cup {current}
  /\ UNCHANGED network
Reject == Refuse("permanent")
LocalFails == \E looks \in Looks : Refuse(looks)

\* Fault: network_operation is not reset after a read.
StillNetwork == TRUE
AfterNetwork == FALSE

\* The length the server declares may be right, wrong or missing; the body may
\* be short, long or not the artifact.
Responses == [declared : {"right", "wrong", "none"}, body : 0..(Size + 1), good : BOOLEAN]

\* A file that is left and cannot be unlinked ends the download.
Request ==
  /\ pc = "request"
  /\ received' = 0
  /\ \/ /\ staging' = [staging EXCEPT ![current] = None]
        /\ response' \in Responses
        /\ network' = AfterNetwork
        /\ Goto("headers")
        /\ UNCHANGED <<error, refused>>
     \/ /\ staging' = [staging EXCEPT ![current] = None]
        /\ NetworkFails
        /\ UNCHANGED response
     \/ Goto("failed") /\ staging' = Nothing /\ UNCHANGED <<response, failures>>
  /\ UNCHANGED <<current, attempt, image>>

\* Content-Length, then the file is opened.
CheckLength ==
  /\ pc = "headers"
  /\ \/ /\ response.declared # "wrong"
        /\ staging' = [staging EXCEPT ![current] = [stored |-> 0, good |-> response.good]]
        /\ Goto("read")
        /\ UNCHANGED failures
     \/ response.declared = "wrong" /\ Reject /\ UNCHANGED staging
     \/ response.declared # "wrong" /\ LocalFails /\ UNCHANGED staging
  /\ UNCHANGED <<download, image>>

\* A chunk, or the end of the body.
Read ==
  /\ pc = "read"
  /\ network' = AfterNetwork
  /\ \/ \E n \in 1..(response.body - received) :
          received' = received + n /\ Goto("write")
     \/ received = response.body /\ Goto("close") /\ UNCHANGED received
  /\ UNCHANGED <<current, attempt, response, staging, error, refused, image>>

\* The file is closed while the error is in flight; when that fails its error
\* takes the place of the other one, and may look like anything as well.
ReadFails ==
  /\ pc = "read"
  /\ NetworkFails
  /\ UNCHANGED <<download, staging, image>>

Oversized == received > Size

Write ==
  /\ pc = "write"
  /\ \/ /\ ~Oversized
        /\ staging' = [staging EXCEPT ![current].stored = received]
        /\ Goto("read")
        /\ UNCHANGED failures
     \/ Oversized /\ Reject /\ UNCHANGED staging
     \/ ~Oversized /\ LocalFails /\ UNCHANGED staging
  /\ UNCHANGED <<download, image>>

\* Fault: the digest is not compared.
SizeMatches == received = Size
DigestMatches == received = Size /\ staging[current] = Right

\* The file is flushed, synced and closed, then the archive is verified.
EndOfBody ==
  /\ pc = "close"
  /\ \/ DigestMatches /\ Goto("next") /\ UNCHANGED failures
     \/ ~DigestMatches /\ Reject
     \/ LocalFails
  /\ UNCHANGED <<download, staging, image>>

RetryAllowed == network /\ error = "temporary"
SameAttempt == attempt  \* fault: the attempts are not counted
NextAttempt == attempt + 1
AttemptsLeft == attempt < DownloadAttempts

Retry ==
  /\ pc = "failed attempt" /\ RetryAllowed /\ AttemptsLeft
  /\ staging' = [staging EXCEPT ![current] = None]
  /\ attempt' = NextAttempt
  /\ Goto("request")
  /\ UNCHANGED <<current, response, received, failures, image>>

\* The error is not tried again, or the handler cannot unlink the archive.  The
\* staging directory goes with the exception.
GiveUp ==
  /\ pc = "failed attempt"
  /\ staging' = Nothing
  /\ Goto("failed")
  /\ UNCHANGED <<download, failures, image>>

-----------------------------------------------------------------------------
(* main, and the inventory check that follows it.                          *)

\* The collections path must be new.
CreatePath ==
  /\ pc = "start"
  /\ \/ ~path /\ path' = TRUE /\ Goto("next")
     \/ path /\ UNCHANGED path /\ Goto("failed")
  /\ UNCHANGED <<download, staging, failures, installed>>

\* ansible-galaxy installs the archives it is given, all or some of them, and
\* may fail or run out of time; nothing is tried again.
Install ==
  /\ pc = "install"
  /\ \E some \in SUBSET Artifacts :
       installed' = [c \in Artifacts \cup {Other} |->
                       IF c \in some THEN staging[c] ELSE installed[c]]
  /\ staging' = Nothing
  /\ Goto("inventory") \/ Goto("failed")
  /\ UNCHANGED <<download, failures, path>>

\* Fault: only what is installed is looked at.
NothingWrong == \A c \in {Other} : installed[c] = None
SameInventory == \A c \in Artifacts \cup {Other} : (installed[c] # None) = (c \in Artifacts)

VerifyInventory ==
  /\ pc = "inventory"
  /\ Goto(IF SameInventory THEN "built" ELSE "failed")
  /\ UNCHANGED <<download, staging, failures, image>>

-----------------------------------------------------------------------------
Init ==
  /\ pc = "start"
  /\ current = None /\ attempt = 1 /\ received = 0
  /\ response = None /\ error = None /\ network = FALSE
  /\ staging = Nothing
  /\ path \in BOOLEAN
  /\ installed \in {[c \in Artifacts \cup {Other} |-> None],
                    [c \in Artifacts \cup {Other} |-> IF c = Other THEN Right ELSE None]}
  /\ installed[Other] # None => path
  /\ refused = {}

Next ==
  \/ CreatePath \/ NextArtifact \/ Request \/ CheckLength
  \/ Read \/ ReadFails \/ Write \/ EndOfBody \/ Retry \/ GiveUp
  \/ Install \/ VerifyInventory

Spec == Init /\ [][Next]_vars

\* Every variable has its type: at most three requests per artifact, and never
\* more bytes on the disk than the lock allows.
TypeOK ==
  /\ pc \in {"start", "next", "request", "headers", "read", "write", "close",
             "failed attempt", "install", "inventory", "built", "failed"}
  /\ current \in Artifacts \cup {None}
  /\ attempt \in 1..DownloadAttempts
  /\ response \in Responses \cup {None}
  /\ received \in 0..(Size + 1)
  /\ staging \in [Artifacts -> Archives \cup {None}]
  /\ network \in BOOLEAN
  /\ error \in Looks \cup {None}
  /\ path \in BOOLEAN
  /\ installed \in [Artifacts \cup {Other} -> Archives \cup {None}]
  /\ refused \subseteq Artifacts

-----------------------------------------------------------------------------
(* What the image build must guarantee.                                    *)

\* No byte of an unverified archive reaches the collections path, also when
\* the installation fails half way or the build is not finished.
InstalledIsVerified == \A a \in Artifacts : installed[a] \in {None, Right}

\* A build that succeeds has every locked collection and no other.
BuiltImageIsLocked ==
  pc = "built" => \A c \in Artifacts \cup {Other} :
                    installed[c] = IF c \in Artifacts THEN Right ELSE None

\* network_operation, "Retry only recognized temporary read-transport failures":
\* an artifact that was rejected, or could not be stored for whatever reason, is
\* never asked for again, whatever the error looks like.  Not counted among them:
\* a file that could not be closed after a read had failed.
RefusedIsFinal == pc = "request" => current \notin refused

=============================================================================

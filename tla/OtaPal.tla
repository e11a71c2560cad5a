------------------------------- MODULE OtaPal -------------------------------
(***************************************************************************)
(* The platform layer of the OTA agent over the firmware update service of *)
(* the secure side (ota_pal.c, tfm_firmware_update_ipc_api.c), driven by   *)
(* the agent and by the callback of the demo.  An image of each type has   *)
(* an active slot, which runs, and a staging slot.  The agent, the service *)
(* and the boot loader are modelled from how the layer uses them: an       *)
(* installed image runs after the next boot, and a boot that finds a       *)
(* running image nobody accepted swaps the previous one back.  The device  *)
(* may be reset between any two calls.                                     *)
(*                                                                         *)
(* The agent has one file context, so the tests for another context are    *)
(* tests for pxSystemContext being NULL.                                   *)
(***************************************************************************)
EXTENDS Integers, Sequences

CONSTANTS
  Images,      \* the images jobs are about, the one from the factory included
  Factory,
  Signed,      \* the images whose signature in the job document is genuine
  Signatures,  \* the pairs of components (r, s) of a signature
  MaxChunk,    \* the chunks of PSA_FWU_MAX_BLOCK_SIZE of an image
  Bytes,       \* the number of byte values
  Width,       \* the bytes of a component of a raw signature
  None

Types   == {"secure", "nonsecure", "full"}
Queried == {"secure", "nonsecure"}  \* those the agent's start-up asks about
Paths   == Types \cup {"other"}     \* pFilePath of the job document
Chunks  == 1..MaxChunk

(* A component of a signature as the service takes it, big-endian.         *)
Components == [1..Width -> 0..(Bytes - 1)]

ASSUME OtaPalAssumption ==
  /\ Factory \in Images /\ Signed \subseteq Images
  /\ None \notin Images \cup Types
  /\ MaxChunk \in Nat \ {0} /\ Width \in Nat \ {0}
  /\ Bytes \in Nat /\ Bytes > 1
  /\ Signatures \subseteq Components \X Components

VARIABLES
  context,  \* pxSystemContext is set
  imageID,  \* xOTAImageID: the type whose staging slot it names
  stage,    \* the staging slots: what each chunk is of, and whether it is installed
  active,   \* the active slots: what runs, and whether it is permanent
  job,      \* the job of the cloud
  agent,    \* the OTA agent
  good,     \* history: what was permanent last
  misread,  \* history: types of which a failing query hid an image that waits
            \* to be accepted, when the agent started
  exposed   \* history: types of which a download was started over the image to
            \* fall back to, while the one that runs waits to be accepted

vars == <<context, imageID, stage, active, job, agent, good, misread, exposed>>

Whole(img) == [c \in Chunks |-> img]
Erased == Whole(None)
Contents == [Chunks -> Images \cup {None}]

NoJob == [path |-> "other", image |-> Factory, sig |-> None, status |-> "none"]
Stopped == [at |-> "stopped", testing |-> FALSE, got |-> {}]

Jobs == [path : Paths, image : Images, sig : Signatures \cup {None},
         status : {"none", "queued", "selftest", "succeeded", "failed"}]

TypeOK ==
  /\ context \in BOOLEAN
  /\ imageID \in Types \cup {None}
  /\ stage \in [Types -> [content : Contents, candidate : BOOLEAN]]
  /\ active \in [Types -> [content : Contents, permanent : BOOLEAN]]
  /\ job \in Jobs
  /\ agent \in [at : {"stopped", "ready", "receiving", "verified", "shut"},
                testing : BOOLEAN, got : SUBSET Chunks]
  /\ good \in [Types -> Contents]
  /\ misread \subseteq Queried /\ exposed \subseteq Types

-----------------------------------------------------------------------------
(* Signatures *)

(* DER: without the leading zeros, one digit at least, and with a zero in   *)
(* front of a first digit that would make the number negative.             *)
FirstDigit(v) == CHOOSE f \in 1..Width :
                   /\ f = Width \/ v[f] # 0
                   /\ \A i \in 1..(f - 1) : v[i] = 0
Integer(v) ==
  LET digits == SubSeq(v, FirstDigit(v), Width)
  IN IF 2 * digits[1] < Bytes THEN digits ELSE <<0>> \o digits

(* SEQUENCE LENGTH { INTEGER LENGTH r, INTEGER LENGTH s }                  *)
Encode(sig) ==
  LET R == Integer(sig[1])
      S == Integer(sig[2])
  IN <<48, Len(R) + Len(S) + 4, 2, Len(R)>> \o R \o <<2, Len(S)>> \o S

Zeros(n) == [i \in 1..n |-> 0]

(* Mutant of Component: a short component is not moved to the right.       *)
Component_LeftAligned(enc, at) ==
  IF enc[at] = Width + 1 THEN SubSeq(enc, at + 2, at + 1 + Width)
  ELSE SubSeq(enc, at + 1, at + enc[at]) \o Zeros(Width - enc[at])

(* The component whose length is at a place of the encoding: without the   *)
(* leading zero when it has one, else after as many zeros as it lacks.     *)
Component(enc, at) ==
  IF enc[at] = Width + 1 THEN SubSeq(enc, at + 2, at + 1 + Width)
  ELSE Zeros(Width - enc[at]) \o SubSeq(enc, at + 1, at + enc[at])

(* None when a length is out of range.                                     *)
prvConvertToRawECDSASignature(enc) ==
  LET next == 4 + enc[4] + 2
  IN IF enc[4] > Width + 1 \/ enc[next] > Width + 1 THEN None
     ELSE Component(enc, 4) \o Component(enc, next)

Raw(sig) == sig[1] \o sig[2]

-----------------------------------------------------------------------------
(* The calls of the firmware update service that change a slot, when they  *)
(* succeed *)

psa_fwu_write(base, from, to, img) ==
  [content |-> [c \in Chunks |-> IF c \in from..to THEN img ELSE base[c]],
   candidate |-> FALSE]
psa_fwu_abort == [content |-> Erased, candidate |-> FALSE]
psa_fwu_install(slot) == [slot EXCEPT !.candidate = TRUE]
psa_fwu_accept(slot)  == [slot EXCEPT !.permanent = TRUE]

-----------------------------------------------------------------------------
(* The functions of the platform layer *)

(* CalculatePSAImageID: the type the path of the job names.                *)
CalculatePSAImageID(path) == IF path \in Types THEN path ELSE None

(* psa_fwu_query: the state of an image in the slot that                   *)
(* otaPal_GetPlatformImageState looks at.                                  *)
prvGetImageState(t) ==
  IF context THEN IF stage[t].candidate THEN "candidate" ELSE "undefined"
  ELSE IF active[t].permanent THEN "installed" ELSE "pending"

(* Mutant of otaPal_GetPlatformImageState: both have to be pending.        *)
otaPal_GetPlatformImageState_Both(answered) ==
  IF answered = Queried /\ \A t \in Queried : prvGetImageState(t) = "pending"
  THEN "pendingCommit" ELSE "invalid"

(* otaPal_GetPlatformImageState, when the agent starts and has no path: of  *)
(* the two types it asks about, those whose query is answered.  A full     *)
(* image is not asked about.                                               *)
otaPal_GetPlatformImageState(answered) ==
  IF \E t \in answered : prvGetImageState(t) = "pending" THEN "pendingCommit"
  ELSE IF answered = Queried /\ \A t \in Queried : prvGetImageState(t) = "installed"
  THEN "valid" ELSE "invalid"

(* The same for the path of a job.                                         *)
ImageStateOf(path) ==
  LET t == CalculatePSAImageID(path) IN
  IF t = None THEN "invalid"
  ELSE CASE prvGetImageState(t) = "pending" -> "pendingCommit"
         [] prvGetImageState(t) = "installed" -> "valid"
         [] OTHER -> "invalid"

(* Mutant of otaPal_CheckSignature: a failing conversion is overlooked.    *)
otaPal_CheckSignature_NoVerify ==
  prvConvertToRawECDSASignature(Encode(job.sig)) # None

(* otaPal_CheckSignature, when the service answers: psa_verify_hash of the *)
(* digest of the staging slot.                                             *)
otaPal_CheckSignature ==
  /\ prvConvertToRawECDSASignature(Encode(job.sig)) = Raw(job.sig)
  /\ job.image \in Signed /\ stage[imageID].content = Whole(job.image)

(* Mutant of WrittenUpTo: the chunk that fails is passed over.             *)
WrittenUpTo_GoesOn(n, hi) == TRUE

(* The loop of otaPal_WriteBlock returns the length of the block only when *)
(* every chunk was written.                                                *)
WrittenUpTo(n, hi) == n = hi

-----------------------------------------------------------------------------
(* The cloud and the agent *)

(* A job is queued, once the one before it has ended.                      *)
QueueJob ==
  /\ job.status \in {"none", "succeeded", "failed"}
  /\ \E p \in Paths, img \in Images, sig \in Signatures :
       job' = [path |-> p, image |-> img, sig |-> sig, status |-> "queued"]
  /\ agent.at \in {"stopped", "ready"}
  /\ UNCHANGED <<context, imageID, stage, active, agent, good, misread, exposed>>

(* OTA_Init, which the demo calls once after a boot: the agent reads the   *)
(* state of the platform, and when an image waits to be accepted it arms   *)
(* the self test timer.  An image whose query fails counts as undefined.   *)
OtaInit ==
  /\ agent.at = "stopped"
  /\ \E answered \in SUBSET Queried :
       /\ agent' = [at |-> "ready", got |-> {},
                    testing |-> otaPal_GetPlatformImageState(answered) = "pendingCommit"]
       /\ misread' = {t \in Queried \ answered : prvGetImageState(t) = "pending"}
  /\ UNCHANGED <<context, imageID, stage, active, job, good, exposed>>

(* otaPal_CreateFileForRx for the job document; nothing is erased here.    *)
otaPal_CreateFileForRx ==
  LET t == CalculatePSAImageID(job.path) IN
  /\ agent.at = "ready" /\ ~agent.testing /\ job.status = "queued"
  /\ IF t # None
     THEN /\ context' = TRUE
          /\ imageID' = t
          /\ agent' = [agent EXCEPT !.at = "receiving", !.got = {}]
          /\ exposed' = IF active[t].permanent THEN exposed ELSE exposed \cup {t}
          /\ UNCHANGED job
     ELSE /\ job' = [job EXCEPT !.status = "failed"]
          /\ UNCHANGED <<context, imageID, agent, exposed>>
  /\ UNCHANGED <<stage, active, good, misread>>

(* otaPal_WriteBlock for a block of one or more chunks: psa_fwu_write of   *)
(* each until one fails.  The service erases the slot before the first.    *)
otaPal_WriteBlock ==
  /\ agent.at = "receiving" /\ context /\ imageID # None
  /\ \E lo \in Chunks : \E hi \in lo..MaxChunk : \E n \in (lo - 1)..hi :
     \E base \in IF agent.got = {} THEN {stage[imageID].content, Erased}
                                   ELSE {stage[imageID].content} :
       /\ n >= lo \/ base = stage[imageID].content
       /\ stage' = [stage EXCEPT ![imageID] = psa_fwu_write(base, lo, n, job.image)]
       /\ agent' = [agent EXCEPT !.got = IF WrittenUpTo(n, hi) THEN @ \cup (lo..hi) ELSE @]
  /\ UNCHANGED <<context, imageID, active, job, good, misread, exposed>>

(* otaPal_CloseFile once every block is there.  The agent gives the job up *)
(* when the signature does not verify or the service fails.                *)
otaPal_CloseFile ==
  /\ agent.at = "receiving" /\ agent.got = Chunks
  /\ \/ /\ otaPal_CheckSignature
        /\ agent' = [agent EXCEPT !.at = "verified"]
        /\ job' = [job EXCEPT !.status = "selftest"]
     \/ /\ job' = [job EXCEPT !.status = "failed"]
        /\ agent' = [agent EXCEPT !.at = "ready"]
  /\ UNCHANGED <<context, imageID, stage, active, good, misread, exposed>>

(* otaPal_Abort, when the agent gives a file up or shuts down.             *)
otaPal_Abort ==
  /\ agent.at # "verified"
  /\ \/ ~context /\ UNCHANGED <<context, imageID, stage>>
     \/ /\ context
        /\ stage' = [stage EXCEPT ![imageID] = psa_fwu_abort]
        /\ context' = FALSE /\ imageID' = None
     \/ context /\ UNCHANGED <<context, imageID, stage>>
  /\ agent' = [agent EXCEPT !.at = IF @ = "receiving" THEN "ready" ELSE @, !.got = {}]
  /\ job' = IF agent.at = "receiving" THEN [job EXCEPT !.status = "failed"] ELSE job
  /\ UNCHANGED <<active, good, misread, exposed>>

(* otaPal_ActivateNewImage, called by prvOtaAppCallback for                *)
(* OtaJobEventActivate.  The reboot that follows is Reset; when it does    *)
(* not come, or the installation fails, the callback stops the agent.      *)
otaPal_ActivateNewImage ==
  /\ agent.at = "verified" /\ context /\ imageID # None
  /\ \/ stage' = [stage EXCEPT ![imageID] = psa_fwu_install(@)]
     \/ UNCHANGED stage
  /\ agent' = [Stopped EXCEPT !.at = "shut"]
  /\ UNCHANGED <<context, imageID, active, job, good, misread, exposed>>

(* otaPal_SetPlatformImageState(Accepted): psa_fwu_accept of the running   *)
(* image, only when there was a reboot.                                    *)
otaPal_SetPlatformImageState ==
  LET t == CalculatePSAImageID(job.path) IN
  /\ ~context /\ t # None
  /\ active' = [active EXCEPT ![t] = psa_fwu_accept(@)]
  /\ good' = [good EXCEPT ![t] = active[t].content]

(* The job in its self test: prvOtaAppCallback accepts the image for       *)
(* OtaJobEventStartTest.  The agent refuses a job in self test when the    *)
(* platform is not.                                                        *)
SelfTest ==
  /\ agent.at = "ready" /\ job.status = "selftest"
  /\ IF agent.testing /\ ImageStateOf(job.path) = "pendingCommit"
     THEN \/ /\ otaPal_SetPlatformImageState
             /\ job' = [job EXCEPT !.status = "succeeded"]
             /\ agent' = [agent EXCEPT !.testing = FALSE]
          \/ UNCHANGED <<active, good, job, agent>>  \* psa_fwu_accept fails
          \/ /\ job' = [job EXCEPT !.status = "failed"]  \* the query fails
             /\ UNCHANGED <<active, good, agent>>
     ELSE job' = [job EXCEPT !.status = "failed"] /\ UNCHANGED <<active, good, agent>>
  /\ UNCHANGED <<context, imageID, stage, misread, exposed>>

-----------------------------------------------------------------------------
(* Boot: per type, an installed image is swapped in, else one that was not *)
(* accepted is swapped out.                                                *)
Swapped(t) == stage[t].candidate \/ ~active[t].permanent

Reset ==
  /\ context' = FALSE /\ imageID' = None
  /\ agent' = Stopped
  /\ active' = [t \in Types |->
       IF Swapped(t)
       THEN [content |-> stage[t].content, permanent |-> ~stage[t].candidate]
       ELSE active[t]]
  /\ stage' = [t \in Types |->
       IF Swapped(t) THEN [content |-> active[t].content, candidate |-> FALSE] ELSE stage[t]]
  /\ misread' = {}
  /\ UNCHANGED <<job, good, exposed>>

Init ==
  /\ context = FALSE /\ imageID = None
  /\ stage = [t \in Types |-> [content |-> Erased, candidate |-> FALSE]]
  /\ active = [t \in Types |-> [content |-> Whole(Factory), permanent |-> TRUE]]
  /\ job = NoJob /\ agent = Stopped
  /\ good = [t \in Types |-> Whole(Factory)]
  /\ misread = {} /\ exposed = {}

Next ==
  \/ QueueJob \/ OtaInit
  \/ otaPal_CreateFileForRx \/ otaPal_WriteBlock \/ otaPal_CloseFile
  \/ otaPal_Abort \/ otaPal_ActivateNewImage
  \/ SelfTest \/ Reset

Spec == Init /\ [][Next]_vars

-----------------------------------------------------------------------------
(* What runs is from the factory or whole and genuine, whatever was reset, *)
(* aborted or written twice on the way: otaPal_CloseFile checks the        *)
(* staging slot as it is after the last chunk.  For the types exposed this *)
(* is not so: a boot may bring back what is left of the fallback image.    *)
OnlyGenuineRuns ==
  \A t \in Types \ exposed : \E img \in Signed \cup {Factory} :
    active[t].content = Whole(img)

(* While an image waits to be accepted the image that was permanent before *)
(* it is whole in the staging slot, so a reset can bring it back.  No      *)
(* download is started into that slot, unless the agent could not know:    *)
(* the query of the type failed, or it is not one the agent asks about.    *)
FallbackKept ==
  /\ context => active[imageID].permanent \/ imageID \in misread \cup (Types \ Queried)
  /\ \A t \in Types \ exposed :
       IF active[t].permanent THEN active[t].content = good[t]
       ELSE stage[t] = [content |-> good[t], candidate |-> FALSE]

(* What the comment of otaPal_GetPlatformImageState says: an image that    *)
(* waits to be accepted puts the agent into the self test, unless its      *)
(* query failed.  It does not for a full image, whose state the code       *)
(* without a path does not look at: such an image is never accepted, and   *)
(* its fallback is written over by the next full image.                    *)
WaitingIsTested ==
  agent.at = "ready" /\ ~agent.testing => \A t \in Types : active[t].permanent \/ t \in misread

(* What the agent counts as received is in the staging slot, also when a   *)
(* write failed on the way.                                                *)
ReceivedIsStaged ==
  agent.at = "receiving" =>
    \A c \in agent.got : stage[imageID].content[c] = job.image

(* The conversion of the signature of a job yields its two components,     *)
(* shorter than the width or not, and with or without a leading zero.      *)
SignatureIsConverted ==
  job.sig # None => prvConvertToRawECDSASignature(Encode(job.sig)) = Raw(job.sig)
=============================================================================

---------------------------- MODULE OtaPalProof -----------------------------
(***************************************************************************)
(* Proofs about the platform layer of the OTA agent, for any images, any   *)
(* number of chunks and any signatures: what runs is genuine, the image to *)
(* fall back to is kept, and what counts as received is staged.            *)
(***************************************************************************)
EXTENDS OtaPal, SequenceTheorems, WellFoundedInduction, TLAPS

Genuine(content) == \E img \in Signed \cup {Factory} : content = Whole(img)

(* The file context and the image it names, and when the agent has one.    *)
ContextIsNamed ==
  /\ context <=> imageID # None
  /\ agent.at = "stopped" => ~context
  /\ agent.at \in {"receiving", "verified"} => context

(* A download is open for a type whose running image is permanent, unless  *)
(* the agent could not know of the one that waits: its type is exposed.    *)
DownloadIsExcused ==
  context => /\ active[imageID].permanent \/ imageID \in exposed
             /\ active[imageID].permanent \/ imageID \in misread \cup (Types \ Queried)

(* Out of the self test, no image waits that the queries have shown.       *)
NoneWaitsUntold ==
  agent.at \in {"ready", "receiving"} /\ ~agent.testing =>
    \A t \in Queried : active[t].permanent \/ t \in misread

(* An installed image waits for the reboot alone, and so does a running    *)
(* one for being accepted: the two slots of one type are exchanged, not    *)
(* both.                                                                   *)
OneAtATime ==
  /\ \A t \in Types : stage[t].candidate =>
        agent.at = "shut" /\ (active[t].permanent \/ t \in exposed)
  /\ \A t, u \in Types : stage[t].candidate /\ stage[u].candidate => t = u
  /\ \A t, u \in Types : active[t].permanent \/ active[u].permanent \/ t = u

(* What may run next is genuine: what was verified, what is installed, and *)
(* what was permanent last.                                                *)
NextIsGenuine ==
  /\ agent.at = "verified" => Genuine(stage[imageID].content)
  /\ \A t \in Types : stage[t].candidate => Genuine(stage[t].content)
  /\ \A t \in Types \ exposed : Genuine(good[t])

SlotsAreSafe == DownloadIsExcused /\ NoneWaitsUntold /\ OneAtATime /\ NextIsGenuine
                  /\ OnlyGenuineRuns /\ FallbackKept

(* The inductive invariant.                                                *)
PalInv == TypeOK /\ ContextIsNamed /\ ReceivedIsStaged /\ SlotsAreSafe

-----------------------------------------------------------------------------
(* Types *)

LEMMA WholeIsContent == \A img \in Images \cup {None} : Whole(img) \in Contents
  BY DEF Whole, Contents

LEMMA ErasedIsContent == Erased \in Contents
  BY WholeIsContent DEF Erased

(* A write of the service leaves a slot.                                   *)
LEMMA WriteIsSlot ==
  ASSUME NEW base \in Contents, NEW from, NEW to, NEW img \in Images
  PROVE  psa_fwu_write(base, from, to, img) \in [content : Contents, candidate : BOOLEAN]
<1>1. [c \in Chunks |-> IF c \in from..to THEN img ELSE base[c]] \in Contents
  BY DEF Contents
<1>2. QED
  BY <1>1 DEF psa_fwu_write

(* What otaPal_WriteBlock does, for the block lo..hi written up to n.      *)
Block(lo, hi, n, base) ==
  /\ n \in (lo - 1)..hi
  /\ n >= lo \/ base = stage[imageID].content
  /\ stage' = [stage EXCEPT ![imageID] = psa_fwu_write(base, lo, n, job.image)]
  /\ agent' = [agent EXCEPT !.got = IF n = hi THEN @ \cup (lo..hi) ELSE @]

LEMMA WriteBlockIsBlock ==
  ASSUME TypeOK, otaPal_WriteBlock
  PROVE  \E lo, hi \in Chunks, n \in Nat, base \in Contents :
           /\ agent.got = {} \/ base = stage[imageID].content
           /\ Block(lo, hi, n, base)
<1>1. imageID \in Types /\ stage[imageID].content \in Contents
  BY DEF TypeOK, otaPal_WriteBlock
<1>2. PICK lo \in Chunks, hi \in Chunks, n \in Nat,
           base \in IF agent.got = {} THEN {stage[imageID].content, Erased}
                                     ELSE {stage[imageID].content} :
             Block(lo, hi, n, base)
  <2>1. \A lo \in Chunks : lo..MaxChunk \subseteq Chunks
    BY OtaPalAssumption DEF Chunks
  <2>2. \A lo, hi \in Chunks : (lo - 1)..hi \subseteq Nat
    BY OtaPalAssumption DEF Chunks
  <2>3. QED
    BY <2>1, <2>2, ZenonT(40) DEF otaPal_WriteBlock, Block, WrittenUpTo
<1>3. base \in Contents /\ (agent.got = {} \/ base = stage[imageID].content)
  BY <1>1, ErasedIsContent
<1>4. QED
  BY <1>2, <1>3

LEMMA PalTypes == TypeOK /\ [Next]_vars => TypeOK'
<1> SUFFICES ASSUME TypeOK, [Next]_vars PROVE TypeOK'
  OBVIOUS
<1> USE OtaPalAssumption
<1>1. CASE QueueJob
  <2>1. job' \in Jobs
    BY <1>1 DEF QueueJob, Jobs
  <2>2. QED
    BY <1>1, <2>1 DEF QueueJob, TypeOK
<1>2. CASE OtaInit
  <2>1. \A answered : (otaPal_GetPlatformImageState(answered) = "pendingCommit") \in BOOLEAN
    OBVIOUS
  <2>2. misread' \subseteq Queried /\ exposed' = exposed
    BY <1>2 DEF OtaInit
  <2>3. PICK a \in BOOLEAN : agent' = [at |-> "ready", got |-> {}, testing |-> a]
    BY <1>2, <2>1 DEF OtaInit
  <2>4. QED
    BY <1>2, <2>2, <2>3 DEF OtaInit, TypeOK
<1>3. CASE otaPal_CreateFileForRx
  <2>1. CalculatePSAImageID(job.path) \in Types \cup {None}
    BY DEF CalculatePSAImageID
  <2>2. job' \in Jobs
    BY <1>3 DEF otaPal_CreateFileForRx, TypeOK, Jobs
  <2>3. exposed' \subseteq Types
    BY <1>3, <2>1 DEF otaPal_CreateFileForRx, TypeOK
  <2>4. agent' \in [at : {"stopped", "ready", "receiving", "verified", "shut"},
                    testing : BOOLEAN, got : SUBSET Chunks]
    BY <1>3 DEF otaPal_CreateFileForRx, TypeOK
  <2>5. context' \in BOOLEAN /\ imageID' \in Types \cup {None}
    BY <1>3, <2>1 DEF otaPal_CreateFileForRx, TypeOK
  <2>6. UNCHANGED <<stage, active, good, misread>>
    BY <1>3 DEF otaPal_CreateFileForRx
  <2>7. QED
    BY <2>2, <2>3, <2>4, <2>5, <2>6 DEF TypeOK
<1>4. CASE otaPal_WriteBlock
  <2>1. PICK lo \in Chunks, hi \in Chunks, n \in Nat, base \in Contents :
          Block(lo, hi, n, base)
    BY <1>4, WriteBlockIsBlock
  <2>2. lo..hi \subseteq Chunks
    BY DEF Chunks
  <2>3. agent' \in [at : {"stopped", "ready", "receiving", "verified", "shut"},
                    testing : BOOLEAN, got : SUBSET Chunks]
    BY <2>1, <2>2 DEF Block, TypeOK
  <2>4. job.image \in Images
    BY DEF TypeOK, Jobs
  <2>5. psa_fwu_write(base, lo, n, job.image) \in [content : Contents, candidate : BOOLEAN]
    BY <2>4, WriteIsSlot
  <2>6. stage' \in [Types -> [content : Contents, candidate : BOOLEAN]]
    BY <2>1, <2>5 DEF Block, TypeOK
  <2>7. QED
    BY <1>4, <2>3, <2>6 DEF otaPal_WriteBlock, TypeOK
<1>5. CASE otaPal_CloseFile
  <2>1. job' \in Jobs
    BY <1>5 DEF otaPal_CloseFile, TypeOK, Jobs
  <2>2. agent' \in [at : {"stopped", "ready", "receiving", "verified", "shut"},
                    testing : BOOLEAN, got : SUBSET Chunks]
    BY <1>5 DEF otaPal_CloseFile, TypeOK
  <2>3. QED
    BY <1>5, <2>1, <2>2 DEF otaPal_CloseFile, TypeOK
<1>6. CASE otaPal_Abort
  <2>1. psa_fwu_abort \in [content : Contents, candidate : BOOLEAN]
    BY ErasedIsContent DEF psa_fwu_abort
  <2>2. stage' \in [Types -> [content : Contents, candidate : BOOLEAN]]
    BY <1>6, <2>1 DEF otaPal_Abort, TypeOK
  <2>3. context' \in BOOLEAN /\ imageID' \in Types \cup {None}
    BY <1>6 DEF otaPal_Abort, TypeOK
  <2>4. job' \in Jobs
    BY <1>6 DEF otaPal_Abort, TypeOK, Jobs
  <2>5. agent' \in [at : {"stopped", "ready", "receiving", "verified", "shut"},
                    testing : BOOLEAN, got : SUBSET Chunks]
    BY <1>6 DEF otaPal_Abort, TypeOK
  <2>6. QED
    BY <1>6, <2>2, <2>3, <2>4, <2>5 DEF otaPal_Abort, TypeOK
<1>7. CASE otaPal_ActivateNewImage
  <2>0. imageID \in Types /\ stage[imageID] \in [content : Contents, candidate : BOOLEAN]
    BY <1>7 DEF otaPal_ActivateNewImage, TypeOK
  <2>a. psa_fwu_install(stage[imageID]) \in [content : Contents, candidate : BOOLEAN]
    BY <2>0 DEF psa_fwu_install
  <2>1. stage' \in [Types -> [content : Contents, candidate : BOOLEAN]]
    BY <1>7, <2>0, <2>a DEF otaPal_ActivateNewImage, TypeOK
  <2>2. QED
    BY <1>7, <2>1 DEF otaPal_ActivateNewImage, Stopped, TypeOK
<1>8. CASE SelfTest
  <2>1. active' \in [Types -> [content : Contents, permanent : BOOLEAN]]
          /\ good' \in [Types -> Contents]
    <3>1. CASE otaPal_SetPlatformImageState
      <4> DEFINE t == CalculatePSAImageID(job.path)
      <4>1. t \in Types
        BY <3>1 DEF otaPal_SetPlatformImageState, CalculatePSAImageID
      <4>2. active[t] \in [content : Contents, permanent : BOOLEAN]
        BY <4>1 DEF TypeOK
      <4>3. psa_fwu_accept(active[t]) \in [content : Contents, permanent : BOOLEAN]
              /\ active[t].content \in Contents
        BY <4>2 DEF psa_fwu_accept
      <4>4. QED
        BY <3>1, <4>1, <4>3 DEF otaPal_SetPlatformImageState, TypeOK
    <3>2. CASE active' = active /\ good' = good
      BY <3>2 DEF TypeOK
    <3>3. QED
      BY <1>8, <3>1, <3>2 DEF SelfTest
  <2>2. job' \in Jobs
    BY <1>8 DEF SelfTest, TypeOK, Jobs
  <2>3. agent' \in [at : {"stopped", "ready", "receiving", "verified", "shut"},
                    testing : BOOLEAN, got : SUBSET Chunks]
    BY <1>8 DEF SelfTest, TypeOK
  <2>4. QED
    BY <1>8, <2>1, <2>2, <2>3 DEF SelfTest, TypeOK
<1>9. CASE Reset
  <2>1. active' \in [Types -> [content : Contents, permanent : BOOLEAN]]
    BY <1>9 DEF Reset, TypeOK
  <2>2. stage' \in [Types -> [content : Contents, candidate : BOOLEAN]]
    BY <1>9 DEF Reset, TypeOK
  <2>3. QED
    BY <1>9, <2>1, <2>2 DEF Reset, Stopped, TypeOK
<1>10. CASE UNCHANGED vars
  BY <1>10 DEF vars, TypeOK
<1>11. QED
  BY <1>1, <1>2, <1>3, <1>4, <1>5, <1>6, <1>7, <1>8, <1>9, <1>10 DEF Next

-----------------------------------------------------------------------------
(* The invariant *)

LEMMA PalInit == Init => PalInv
<1> SUFFICES ASSUME Init PROVE PalInv
  OBVIOUS
<1> USE OtaPalAssumption DEF Init
<1>1. Whole(Factory) \in Contents /\ Genuine(Whole(Factory))
  BY WholeIsContent DEF Genuine
<1>2. TypeOK
  BY <1>1, ErasedIsContent DEF TypeOK, NoJob, Jobs, Stopped, Paths
<1>3. ContextIsNamed /\ ReceivedIsStaged
  BY DEF ContextIsNamed, ReceivedIsStaged, Stopped
<1>4. DownloadIsExcused /\ NoneWaitsUntold /\ OneAtATime
  BY DEF DownloadIsExcused, NoneWaitsUntold, OneAtATime, Stopped
<1>5. NextIsGenuine /\ OnlyGenuineRuns /\ FallbackKept
  BY <1>1 DEF NextIsGenuine, OnlyGenuineRuns, Genuine, FallbackKept, Stopped
<1>6. QED
  BY <1>2, <1>3, <1>4, <1>5 DEF PalInv, SlotsAreSafe

(* The slots stay safe in a step that leaves them alone, in which the      *)
(* agent neither verifies an image nor comes to be idle while one waits.   *)
LEMMA SameSlots ==
  ASSUME TypeOK, SlotsAreSafe,
         UNCHANGED <<stage, active, good>>, exposed \subseteq exposed',
         DownloadIsExcused', NoneWaitsUntold',
         agent.at = "shut" => agent'.at = "shut",
         agent'.at # "verified"
  PROVE  SlotsAreSafe'
<1>1. OneAtATime'
  BY DEF SlotsAreSafe, OneAtATime
<1>2. NextIsGenuine'
  BY DEF SlotsAreSafe, NextIsGenuine
<1>3. OnlyGenuineRuns'
  BY DEF SlotsAreSafe, OnlyGenuineRuns
<1>4. FallbackKept'
  BY DEF SlotsAreSafe, FallbackKept, DownloadIsExcused
<1>5. QED
  BY <1>1, <1>2, <1>3, <1>4 DEF SlotsAreSafe

(* Writing to the slot of the context, or erasing it, leaves the slots     *)
(* safe: the running image of that type is permanent then, or exposed.     *)
LEMMA StagedSlot ==
  ASSUME TypeOK, SlotsAreSafe, context, imageID \in Types,
         NEW slot, ~slot.candidate,
         stage' = [stage EXCEPT ![imageID] = slot],
         UNCHANGED <<active, good, exposed>>,
         DownloadIsExcused', NoneWaitsUntold',
         agent'.at # "verified", agent.at = "shut" => agent'.at = "shut"
  PROVE  SlotsAreSafe'
<1>1. active[imageID].permanent \/ imageID \in exposed
  BY DEF SlotsAreSafe, DownloadIsExcused
<1>2. \A t \in Types : t # imageID => stage'[t] = stage[t]
  BY DEF TypeOK
<1>3. \A t \in Types : stage'[t].candidate => t # imageID /\ stage'[t] = stage[t]
  BY DEF TypeOK
<1>4. OneAtATime'
  BY <1>3 DEF SlotsAreSafe, OneAtATime
<1>5. NextIsGenuine'
  BY <1>3 DEF SlotsAreSafe, NextIsGenuine
<1>6. OnlyGenuineRuns'
  BY DEF SlotsAreSafe, OnlyGenuineRuns
<1>7. FallbackKept'
  BY <1>1, <1>2 DEF SlotsAreSafe, FallbackKept, DownloadIsExcused
<1>8. QED
  BY <1>4, <1>5, <1>6, <1>7 DEF SlotsAreSafe

LEMMA PalStep == PalInv /\ [Next]_vars => PalInv'
<1> SUFFICES ASSUME PalInv, [Next]_vars PROVE PalInv'
  OBVIOUS
<1>0. TypeOK /\ TypeOK'
  BY PalTypes DEF PalInv
<1> USE OtaPalAssumption DEF PalInv
<1>1. CASE QueueJob
  <2>1. ContextIsNamed' /\ ReceivedIsStaged'
    BY <1>1 DEF QueueJob, ContextIsNamed, ReceivedIsStaged
  <2>2. DownloadIsExcused' /\ NoneWaitsUntold'
    BY <1>1 DEF QueueJob, SlotsAreSafe, DownloadIsExcused, NoneWaitsUntold
  <2>3. SlotsAreSafe'
    BY <1>0, <1>1, <2>2, SameSlots DEF QueueJob
  <2>4. QED
    BY <1>0, <1>1, <2>1, <2>3 DEF QueueJob
<1>2. CASE OtaInit
  <2>1. ContextIsNamed' /\ ReceivedIsStaged' /\ ~context /\ ~context'
    BY <1>2 DEF OtaInit, ContextIsNamed, ReceivedIsStaged
  <2>2. PICK answered \in SUBSET Queried :
          /\ agent' = [at |-> "ready", got |-> {},
                       testing |-> otaPal_GetPlatformImageState(answered) = "pendingCommit"]
          /\ misread' = {t \in Queried \ answered : prvGetImageState(t) = "pending"}
    BY <1>2 DEF OtaInit
  <2>3. \A t \in Types : (prvGetImageState(t) = "pending") <=> ~active[t].permanent
    BY <2>1 DEF prvGetImageState
  <2>4. Queried \subseteq Types
    BY DEF Queried, Types
  <2>5. ~agent'.testing => \A t \in answered : active[t].permanent
    BY <2>2, <2>3, <2>4 DEF otaPal_GetPlatformImageState
  <2>6. NoneWaitsUntold'
    <3>1. active' = active
      BY <1>2 DEF OtaInit
    <3>2. \A t \in Queried : ~agent'.testing => active[t].permanent \/ t \in misread'
      BY <2>2, <2>3, <2>4, <2>5
    <3>3. QED
      BY <3>1, <3>2 DEF NoneWaitsUntold
  <2>7. DownloadIsExcused'
    BY <2>1 DEF DownloadIsExcused
  <2>8. agent'.at = "ready" /\ agent.at = "stopped" /\ UNCHANGED <<stage, active, good, exposed>>
    BY <1>2, <2>2 DEF OtaInit
  <2>9. SlotsAreSafe'
    BY <1>0, <2>6, <2>7, <2>8, SameSlots
  <2>10. QED
    BY <1>0, <2>1, <2>9
<1>3. CASE otaPal_CreateFileForRx
  <2>1. ContextIsNamed'
    BY <1>0, <1>3 DEF otaPal_CreateFileForRx, ContextIsNamed, TypeOK
  <2>2. ReceivedIsStaged'
    BY <1>0, <1>3 DEF otaPal_CreateFileForRx, ReceivedIsStaged, TypeOK
  <2>3. /\ agent.at = "ready" /\ ~agent.testing /\ agent'.at \in {"ready", "receiving"}
        /\ agent'.testing = agent.testing /\ UNCHANGED <<stage, active, good, misread>>
        /\ exposed \subseteq exposed'
    BY <1>0, <1>3 DEF otaPal_CreateFileForRx, TypeOK
  <2>4. NoneWaitsUntold /\ NoneWaitsUntold'
    BY <2>3 DEF SlotsAreSafe, NoneWaitsUntold
  <2>5. DownloadIsExcused'
    <3>1. CASE CalculatePSAImageID(job.path) = None
      BY <1>3, <2>3, <3>1 DEF otaPal_CreateFileForRx, SlotsAreSafe, DownloadIsExcused
    <3>2. CASE CalculatePSAImageID(job.path) # None
      <4>1. imageID' = CalculatePSAImageID(job.path) /\ imageID' \in Types
        BY <1>3, <3>2 DEF otaPal_CreateFileForRx, CalculatePSAImageID
      <4>2. active[imageID'].permanent \/ imageID' \in exposed'
        BY <1>3, <3>2, <4>1 DEF otaPal_CreateFileForRx
      <4>3. active[imageID'].permanent \/ imageID' \in misread \cup (Types \ Queried)
        BY <2>3, <2>4, <4>1 DEF NoneWaitsUntold
      <4>4. QED
        BY <2>3, <4>2, <4>3 DEF DownloadIsExcused
    <3>3. QED
      BY <3>1, <3>2
  <2>6. SlotsAreSafe'
    BY <1>0, <2>3, <2>4, <2>5, SameSlots
  <2>7. QED
    BY <1>0, <2>1, <2>2, <2>6
<1>4. CASE otaPal_WriteBlock
  <2>1. PICK lo \in Chunks, hi \in Chunks, n \in Nat, base \in Contents :
          /\ agent.got = {} \/ base = stage[imageID].content
          /\ Block(lo, hi, n, base)
    BY <1>0, <1>4, WriteBlockIsBlock
  <2>2. imageID \in Types /\ context /\ agent.at = "receiving" /\ job.image \in Images
    BY <1>0, <1>4 DEF otaPal_WriteBlock, TypeOK, Jobs
  <2>3. agent'.at = agent.at /\ agent'.testing = agent.testing
          /\ agent'.got = IF n = hi THEN agent.got \cup (lo..hi) ELSE agent.got
    BY <1>0, <2>1 DEF Block, TypeOK
  <2> DEFINE slot == psa_fwu_write(base, lo, n, job.image)
  <2>4. /\ stage' = [stage EXCEPT ![imageID] = slot]
        /\ slot.candidate = FALSE
        /\ slot.content = [c \in Chunks |-> IF c \in lo..n THEN job.image ELSE base[c]]
    <3>1. stage' = [stage EXCEPT ![imageID] = slot]
      BY <2>1 DEF Block
    <3>2. slot.candidate = FALSE
      BY DEF psa_fwu_write
    <3>3. slot.content = [c \in Chunks |-> IF c \in lo..n THEN job.image ELSE base[c]]
      BY DEF psa_fwu_write
    <3>4. QED
      BY <3>1, <3>2, <3>3
  <2>5. ContextIsNamed'
    BY <1>4, <2>3 DEF otaPal_WriteBlock, ContextIsNamed
  <2>6. ReceivedIsStaged'
    <3>1. stage'[imageID].content = [c \in Chunks |-> IF c \in lo..n THEN job.image ELSE base[c]]
            /\ imageID' = imageID /\ job' = job
      BY <1>0, <1>4, <2>2, <2>4 DEF otaPal_WriteBlock, TypeOK
    <3>2. SUFFICES ASSUME NEW c \in agent'.got
                   PROVE  stage'[imageID].content[c] = job.image
      BY <3>1 DEF ReceivedIsStaged
    <3>3. c \in Chunks
      BY <1>0 DEF TypeOK
    <3>4. CASE c \in agent.got
      BY <2>1, <2>2, <3>1, <3>3, <3>4 DEF ReceivedIsStaged
    <3>5. CASE c \notin agent.got
      BY <2>3, <3>1, <3>3, <3>5
    <3>6. QED
      BY <3>4, <3>5
  <2>7. SlotsAreSafe'
    <3> HIDE DEF slot
    <3>1. DownloadIsExcused' /\ NoneWaitsUntold'
      BY <1>4, <2>3 DEF otaPal_WriteBlock, SlotsAreSafe, DownloadIsExcused, NoneWaitsUntold
    <3>2. QED
      BY <1>0, <1>4, <2>2, <2>3, <2>4, <3>1, StagedSlot DEF otaPal_WriteBlock
  <2>8. QED
    BY <1>0, <1>4, <2>5, <2>6, <2>7 DEF otaPal_WriteBlock
<1>5. CASE otaPal_CloseFile
  <2>1. agent.at = "receiving" /\ agent'.at \in {"verified", "ready"}
          /\ agent'.testing = agent.testing
    BY <1>0, <1>5 DEF otaPal_CloseFile, TypeOK
  <2>2. ContextIsNamed' /\ ReceivedIsStaged' /\ context
    BY <1>5, <2>1 DEF otaPal_CloseFile, ContextIsNamed, ReceivedIsStaged
  <2>5. DownloadIsExcused' /\ NoneWaitsUntold'
    BY <1>5, <2>1 DEF otaPal_CloseFile, SlotsAreSafe, DownloadIsExcused, NoneWaitsUntold
  <2>3. CASE agent'.at = "ready"
    <3>1. SlotsAreSafe'
      BY <1>0, <1>5, <2>1, <2>3, <2>5, SameSlots DEF otaPal_CloseFile
    <3>2. QED
      BY <1>0, <2>2, <3>1
  <2>4. CASE agent'.at = "verified"
    <3>1. otaPal_CheckSignature
            /\ UNCHANGED <<context, imageID, stage, active, good, misread, exposed>>
      BY <1>0, <1>5, <2>4 DEF otaPal_CloseFile, TypeOK
    <3>2. Genuine(stage[imageID].content)
      BY <3>1 DEF otaPal_CheckSignature, Genuine
    <3>3. OneAtATime'
      BY <2>1, <3>1 DEF SlotsAreSafe, OneAtATime
    <3>4. NextIsGenuine'
      BY <3>1, <3>2 DEF SlotsAreSafe, NextIsGenuine
    <3>5. OnlyGenuineRuns' /\ FallbackKept'
      BY <3>1 DEF SlotsAreSafe, OnlyGenuineRuns, FallbackKept
    <3>6. SlotsAreSafe'
      BY <2>5, <3>3, <3>4, <3>5 DEF SlotsAreSafe
    <3>7. QED
      BY <1>0, <2>2, <3>6
  <2>6. QED
    BY <2>1, <2>3, <2>4
<1>6. CASE otaPal_Abort
  <2>1. /\ agent'.at = IF agent.at = "receiving" THEN "ready" ELSE agent.at
        /\ agent.at # "verified" /\ agent'.testing = agent.testing
    BY <1>0, <1>6 DEF otaPal_Abort, TypeOK
  <2>2. ReceivedIsStaged'
    BY <1>0, <2>1 DEF ReceivedIsStaged
  <2>3. NoneWaitsUntold'
    BY <1>6, <2>1 DEF otaPal_Abort, SlotsAreSafe, NoneWaitsUntold
  <2>4. CASE UNCHANGED <<context, imageID, stage>>
    <3>1. ContextIsNamed'
      BY <2>1, <2>4 DEF ContextIsNamed
    <3>2. DownloadIsExcused'
      BY <1>6, <2>4 DEF otaPal_Abort, SlotsAreSafe, DownloadIsExcused
    <3>3. SlotsAreSafe'
      BY <1>0, <1>6, <2>1, <2>3, <2>4, <3>2, SameSlots DEF otaPal_Abort
    <3>4. QED
      BY <1>0, <2>2, <3>1, <3>3
  <2>5. CASE /\ context
             /\ stage' = [stage EXCEPT ![imageID] = psa_fwu_abort]
             /\ context' = FALSE /\ imageID' = None
    <3>1. ContextIsNamed' /\ imageID \in Types
      BY <1>0, <2>1, <2>5 DEF ContextIsNamed, TypeOK
    <3>2. ~psa_fwu_abort.candidate
      BY DEF psa_fwu_abort
    <3>a. agent'.at # "verified" /\ (agent.at = "shut" => agent'.at = "shut")
            /\ UNCHANGED <<active, good, exposed>>
      BY <1>6, <2>1 DEF otaPal_Abort
    <3>b. DownloadIsExcused'
      BY <2>5 DEF DownloadIsExcused
    <3>3. SlotsAreSafe'
      BY <1>0, <2>3, <2>5, <3>1, <3>2, <3>a, <3>b, StagedSlot
    <3>4. QED
      BY <1>0, <2>2, <3>1, <3>3
  <2>6. QED
    BY <1>6, <2>4, <2>5 DEF otaPal_Abort
<1>7. CASE otaPal_ActivateNewImage
  <2>1. /\ agent'.at = "shut" /\ agent.at = "verified" /\ imageID \in Types /\ context
        /\ UNCHANGED <<context, imageID, active, job, good, misread, exposed>>
    BY <1>0, <1>7 DEF otaPal_ActivateNewImage, Stopped, TypeOK
  <2>2. ContextIsNamed' /\ ReceivedIsStaged'
    BY <2>1 DEF ContextIsNamed, ReceivedIsStaged
  <2>3. DownloadIsExcused' /\ NoneWaitsUntold'
    BY <2>1 DEF SlotsAreSafe, DownloadIsExcused, NoneWaitsUntold
  <2>4. active[imageID].permanent \/ imageID \in exposed
    BY <2>1 DEF SlotsAreSafe, DownloadIsExcused
  <2>5. \A t \in Types : ~stage[t].candidate
    BY <2>1 DEF SlotsAreSafe, OneAtATime
  <2>6. \A t \in Types :
          /\ stage'[t].candidate => t = imageID
          /\ stage'[t].content = stage[t].content
          /\ t # imageID => stage'[t] = stage[t]
    BY <1>0, <1>7, <2>1, <2>5 DEF otaPal_ActivateNewImage, psa_fwu_install, TypeOK
  <2>7. OneAtATime'
    BY <2>1, <2>4, <2>6 DEF SlotsAreSafe, OneAtATime
  <2>8. NextIsGenuine'
    BY <2>1, <2>6 DEF SlotsAreSafe, NextIsGenuine
  <2>9. OnlyGenuineRuns'
    BY <2>1 DEF SlotsAreSafe, OnlyGenuineRuns
  <2>10. FallbackKept'
    BY <2>1, <2>4, <2>6 DEF SlotsAreSafe, FallbackKept
  <2>11. QED
    BY <1>0, <2>1, <2>2, <2>3, <2>7, <2>8, <2>9, <2>10 DEF SlotsAreSafe
<1>8. CASE SelfTest
  <2>1. UNCHANGED <<context, imageID, stage, misread, exposed>> /\ agent.at = "ready"
          /\ agent'.at = "ready"
    BY <1>0, <1>8 DEF SelfTest, TypeOK
  <2>2. ContextIsNamed' /\ ReceivedIsStaged'
    BY <2>1 DEF ContextIsNamed, ReceivedIsStaged
  <2>3. CASE UNCHANGED <<active, good, agent>>
    <3>1. DownloadIsExcused' /\ NoneWaitsUntold'
      BY <2>1, <2>3 DEF SlotsAreSafe, DownloadIsExcused, NoneWaitsUntold
    <3>2. SlotsAreSafe'
      BY <1>0, <2>1, <2>3, <3>1, SameSlots
    <3>3. QED
      BY <1>0, <2>2, <3>2
  <2>4. CASE /\ ImageStateOf(job.path) = "pendingCommit"
             /\ otaPal_SetPlatformImageState
    <3> DEFINE t == CalculatePSAImageID(job.path)
    <3>1. t \in Types /\ ~active[t].permanent /\ ~context
      BY <2>4 DEF ImageStateOf, prvGetImageState, CalculatePSAImageID,
                  otaPal_SetPlatformImageState
    <3>2. /\ \A u \in Types : u # t => active'[u] = active[u] /\ good'[u] = good[u]
          /\ active'[t].permanent /\ active'[t].content = active[t].content
          /\ good'[t] = active[t].content
      BY <1>0, <2>4, <3>1 DEF otaPal_SetPlatformImageState, psa_fwu_accept, TypeOK
    <3>3. \A u \in Types : active'[u].permanent
      BY <3>1, <3>2 DEF SlotsAreSafe, OneAtATime
    <3>4. \A u \in Types : ~stage'[u].candidate
      BY <2>1 DEF SlotsAreSafe, OneAtATime
    <3>5. DownloadIsExcused' /\ OneAtATime'
      BY <2>1, <3>1, <3>3, <3>4 DEF DownloadIsExcused, OneAtATime
    <3>6. NoneWaitsUntold'
      BY <3>3 DEF NoneWaitsUntold, Queried, Types
    <3>7. \A u \in Types \ exposed : Genuine(active[u].content)
      BY DEF SlotsAreSafe, OnlyGenuineRuns, Genuine
    <3>8. NextIsGenuine'
      BY <2>1, <3>1, <3>2, <3>4, <3>7 DEF SlotsAreSafe, NextIsGenuine
    <3>9. OnlyGenuineRuns'
      BY <2>1, <3>1, <3>2, <3>7 DEF OnlyGenuineRuns, Genuine
    <3>10. FallbackKept'
      <4>1. ASSUME NEW u \in Types \ exposed PROVE active'[u].content = good'[u]
        <5>1. CASE u = t
          BY <3>2, <5>1
        <5>2. CASE u # t
          <6>1. active[u].permanent
            BY <3>1, <4>1, <5>2 DEF SlotsAreSafe, OneAtATime
          <6>2. active[u].content = good[u]
            BY <4>1, <6>1 DEF SlotsAreSafe, FallbackKept
          <6>3. QED
            BY <3>2, <4>1, <5>2, <6>2
        <5>3. QED
          BY <5>1, <5>2
      <4>2. QED
        BY <2>1, <3>1, <3>3, <4>1 DEF FallbackKept
    <3>11. SlotsAreSafe'
      BY <3>5, <3>6, <3>8, <3>9, <3>10 DEF SlotsAreSafe
    <3>12. QED
      BY <1>0, <2>2, <3>11
  <2>5. QED
    BY <1>8, <2>3, <2>4 DEF SelfTest
<1>9. CASE Reset
  <2>1. /\ agent'.at = "stopped" /\ context' = FALSE /\ imageID' = None
        /\ UNCHANGED <<job, good, exposed>>
    BY <1>9 DEF Reset, Stopped
  <2>2. ContextIsNamed' /\ ReceivedIsStaged'
    BY <2>1 DEF ContextIsNamed, ReceivedIsStaged
  <2>3. SlotsAreSafe'
    <3>1. \A t \in Types :
            /\ stage'[t].candidate = FALSE
            /\ IF stage[t].candidate \/ ~active[t].permanent
               THEN /\ active'[t] = [content |-> stage[t].content,
                                     permanent |-> ~stage[t].candidate]
                    /\ stage'[t] = [content |-> active[t].content, candidate |-> FALSE]
               ELSE active'[t] = active[t] /\ stage'[t] = stage[t]
      BY <1>0, <1>9 DEF Reset, Swapped, TypeOK
    <3>2. \A t \in Types \ exposed : stage[t].candidate => active[t].permanent
      BY DEF SlotsAreSafe, OneAtATime
    <3>3. \A t \in Types : ~active'[t].permanent <=> stage[t].candidate
      <4>1. TAKE t \in Types
      <4>2. stage[t].candidate \in BOOLEAN /\ active[t].permanent \in BOOLEAN
        BY <1>0 DEF TypeOK
      <4>3. CASE stage[t].candidate \/ ~active[t].permanent
        <5>1. active'[t] = [content |-> stage[t].content,
                            permanent |-> ~stage[t].candidate]
          BY <3>1, <4>3
        <5>2. active'[t].permanent = ~stage[t].candidate
          BY <5>1
        <5>3. QED
          BY <4>2, <5>2
      <4>4. CASE ~(stage[t].candidate \/ ~active[t].permanent)
        BY <3>1, <4>2, <4>4
      <4>5. QED
        BY <4>3, <4>4
    <3>a. \A t \in Types \ exposed :
            /\ ~active[t].permanent => stage[t].content = good[t]
            /\ active[t].permanent => active[t].content = good[t]
      <4>1. TAKE t \in Types \ exposed
      <4>2. CASE ~active[t].permanent
        <5>1. stage[t] = [content |-> good[t], candidate |-> FALSE]
          BY <4>2 DEF SlotsAreSafe, FallbackKept
        <5>2. QED
          BY <4>2, <5>1
      <4>3. CASE active[t].permanent
        BY <4>3 DEF SlotsAreSafe, FallbackKept
      <4>4. QED
        BY <4>2, <4>3
    <3>b. \A t \in Types :
            active'[t].content = IF stage[t].candidate \/ ~active[t].permanent
                                 THEN stage[t].content ELSE active[t].content
      <4>1. TAKE t \in Types
      <4>2. CASE stage[t].candidate \/ ~active[t].permanent
        <5>1. active'[t] = [content |-> stage[t].content, permanent |-> ~stage[t].candidate]
          BY <3>1, <4>2
        <5>2. QED
          BY <4>2, <5>1
      <4>3. CASE ~(stage[t].candidate \/ ~active[t].permanent)
        BY <3>1, <4>3
      <4>4. QED
        BY <4>2, <4>3
    <3>4. DownloadIsExcused' /\ NoneWaitsUntold' /\ OneAtATime'
      BY <2>1, <3>1, <3>3 DEF SlotsAreSafe, DownloadIsExcused, NoneWaitsUntold, OneAtATime
    <3>5. NextIsGenuine'
      BY <2>1, <3>1 DEF SlotsAreSafe, NextIsGenuine
    <3>6. FallbackKept'
      <4>1. SUFFICES ASSUME NEW t \in Types \ exposed
                     PROVE  IF active'[t].permanent THEN active'[t].content = good[t]
                            ELSE stage'[t] = [content |-> good[t], candidate |-> FALSE]
        BY <2>1 DEF FallbackKept
      <4>2. CASE stage[t].candidate
        BY <3>1, <3>2, <3>3, <3>a, <4>2
      <4>3. CASE ~stage[t].candidate
        <5>1. ~active[t].permanent => stage[t].content = good[t]
          BY <3>a
        <5>2. active'[t].content = good[t]
          BY <3>a, <3>b, <4>3, <5>1
        <5>3. QED
          BY <3>3, <4>3, <5>2
      <4>4. QED
        BY <4>2, <4>3
    <3>7. \A t \in Types \ exposed : Genuine(active'[t].content)
      <4>1. TAKE t \in Types \ exposed
      <4>2. CASE stage[t].candidate
        BY <3>b, <4>2 DEF SlotsAreSafe, NextIsGenuine
      <4>3. CASE ~stage[t].candidate /\ ~active[t].permanent
        <5>1. stage[t].content = good[t]
          BY <3>a, <4>3
        <5>2. QED
          BY <3>b, <4>3, <5>1 DEF SlotsAreSafe, NextIsGenuine
      <4>4. CASE ~stage[t].candidate /\ active[t].permanent
        BY <3>b, <4>4 DEF SlotsAreSafe, OnlyGenuineRuns, Genuine
      <4>5. QED
        BY <4>2, <4>3, <4>4
    <3>8. OnlyGenuineRuns'
      BY <2>1, <3>7 DEF OnlyGenuineRuns, Genuine
    <3>9. QED
      BY <3>4, <3>5, <3>6, <3>8 DEF SlotsAreSafe
  <2>4. QED
    BY <1>0, <2>1, <2>2, <2>3
<1>10. CASE UNCHANGED vars
  BY <1>0, <1>10 DEF vars, ContextIsNamed, ReceivedIsStaged, SlotsAreSafe, DownloadIsExcused,
                     NoneWaitsUntold, OneAtATime, NextIsGenuine, OnlyGenuineRuns, FallbackKept
<1>11. QED
  BY <1>1, <1>2, <1>3, <1>4, <1>5, <1>6, <1>7, <1>8, <1>9, <1>10 DEF Next

LEMMA PalInvariant == Spec => []PalInv
<1>1. QED
  BY PalInit, PalStep, PTL DEF Spec

-----------------------------------------------------------------------------
(* Signatures *)

LEMMA SmallestOf ==
  ASSUME NEW S \in SUBSET Nat, S # {}
  PROVE  \E m \in S : \A n \in S : m <= n
<1> DEFINE Less == OpToRel(<, Nat)
<1>1. IsWellFoundedOn(Less, Nat)
  BY NatLessThanWellFounded
<1>2. Less = {ss \in Nat \X Nat : ss[1] < ss[2]}
  BY DEF OpToRel
<1> HIDE DEF Less
<1>3. PICK m \in S : \A n \in S : ~(<<n, m>> \in Less)
  BY <1>1, WFMin
<1>4. ASSUME NEW n \in S
      PROVE  m <= n
  <2>1. m \in Nat /\ n \in Nat /\ ~(n < m)
    BY <1>2, <1>3
  <2>2. QED
    BY <2>1
<1>5. QED
  BY <1>4

LEMMA ComponentIsSeq ==
  ASSUME NEW v \in Components
  PROVE  /\ v \in Seq(Nat) /\ Len(v) = Width /\ Width \in Int /\ Width >= 1
         /\ Bytes \in Int /\ Bytes > 1
<1>1. Width \in Nat /\ Width >= 1 /\ Bytes \in Nat /\ Bytes > 1
  BY OtaPalAssumption
<1>2. v \in [1..Width -> Nat]
  <2>1. v \in [1..Width -> 0..(Bytes - 1)]
    BY DEF Components
  <2>2. \A i \in 1..Width : v[i] \in Nat
    BY <1>1, <2>1
  <2>3. QED
    BY <2>1, <2>2
<1>3. v \in Seq(Nat)
  BY <1>1, <1>2, SeqDef
<1>4. QED
  BY <1>1, <1>2, <1>3

LEMMA Joined ==
  ASSUME NEW x \in Seq(Nat), NEW y \in Seq(Nat), NEW t, t = x \o y
  PROVE  /\ t \in Seq(Nat) /\ Len(t) = Len(x) + Len(y)
         /\ \A j \in 1..(Len(x) + Len(y)) :
               t[j] = IF j <= Len(x) THEN x[j] ELSE y[j - Len(x)]
  BY ConcatProperties

LEMMA FirstDigitIs ==
  ASSUME NEW v \in Components
  PROVE  /\ FirstDigit(v) \in 1..Width
         /\ \A i \in 1..(FirstDigit(v) - 1) : v[i] = 0
<1> DEFINE Last == {f \in 1..Width : f = Width \/ v[f] # 0}
<1>1. Width \in Int /\ Width >= 1
  BY ComponentIsSeq
<1>2. Last \in SUBSET Nat /\ Last # {}
  <2>1. Width \in Last
    BY <1>1
  <2>2. QED
    BY <1>1, <2>1
<1>3. PICK f \in Last : \A g \in Last : f <= g
  <2> HIDE DEF Last
  <2>1. QED
    BY <1>2, SmallestOf
<1>4. ASSUME NEW i \in 1..(f - 1)
      PROVE  v[i] = 0
  <2>1. i \in 1..Width /\ ~(f <= i)
    BY <1>1, <1>3
  <2>2. i \notin Last
    BY <1>3, <2>1
  <2>3. QED
    BY <2>1, <2>2
<1>5. \E g \in 1..Width : /\ g = Width \/ v[g] # 0
                          /\ \A i \in 1..(g - 1) : v[i] = 0
  BY <1>3, <1>4
<1>6. QED
  BY <1>5 DEF FirstDigit

(* A DER integer of n digits is the last n of a component, all of it after *)
(* a zero when n is one more than Width; the digits it leaves out are 0.   *)
IsInteger(s, v) ==
  LET n == Len(s)
  IN /\ s \in Seq(Nat) /\ n \in 1..(Width + 1)
     /\ \A k \in 1..n : k + Width - n >= 1 => s[k] = v[k + Width - n]
     /\ \A i \in 1..(Width - n) : v[i] = 0

LEMMA IntegerIsInteger ==
  ASSUME NEW v \in Components
  PROVE  IsInteger(Integer(v), v)
<1>1. /\ v \in Seq(Nat) /\ Len(v) = Width /\ Width \in Int /\ Width >= 1
      /\ Bytes \in Int /\ Bytes > 1
  BY ComponentIsSeq
<1>2. PICK f : f = FirstDigit(v)
  OBVIOUS
<1>3. f \in 1..Width /\ \A i \in 1..(f - 1) : v[i] = 0
  BY <1>2, FirstDigitIs
<1>4. PICK digits : digits = SubSeq(v, f, Width)
  OBVIOUS
<1>5. PICK d : d = Width - f + 1
  OBVIOUS
<1>6. d \in 1..Width /\ f = Width - d + 1
  BY <1>1, <1>3, <1>5
<1>7. /\ digits \in Seq(Nat) /\ Len(digits) = d
      /\ \A k \in 1..d : digits[k] = v[f + k - 1]
  <2>1. \A i \in f..Width : v[i] \in Nat
    BY <1>1, <1>3, ElementOfSeq
  <2>2. f \in Int /\ Width \in Int /\ f <= Width
    BY <1>1, <1>3
  <2>3. QED
    BY <1>4, <1>5, <2>1, <2>2, SubSeqProperties
<1>8. ASSUME NEW k \in 1..d
      PROVE  digits[k] = v[k + Width - d]
  <2>1. f + k - 1 = k + Width - d
    BY <1>1, <1>6
  <2>2. QED
    BY <1>7, <2>1
<1>9. CASE 2 * digits[1] < Bytes
  <2>1. Integer(v) = digits
    BY <1>2, <1>4, <1>9 DEF Integer
  <2>2. \A i \in 1..(Width - d) : v[i] = 0
    BY <1>1, <1>3, <1>6
  <2>3. d \in 1..(Width + 1) /\ \A k \in 1..d : k + Width - d >= 1 => digits[k] = v[k + Width - d]
    BY <1>1, <1>6, <1>8
  <2>4. QED
    BY ONLY <1>7, <2>1, <2>2, <2>3 DEF IsInteger
<1>10. CASE ~(2 * digits[1] < Bytes)
  <2>1. PICK s : s = <<0>> \o digits
    OBVIOUS
  <2>2. Integer(v) = s
    BY <1>2, <1>4, <1>10, <2>1 DEF Integer
  <2>3. /\ s \in Seq(Nat) /\ Len(s) = d + 1 /\ s[1] = 0
        /\ \A k \in 2..(d + 1) : s[k] = digits[k - 1]
    <3>1. <<0>> \in Seq(Nat) /\ Len(<<0>>) = 1
      OBVIOUS
    <3>2. /\ s \in Seq(Nat) /\ Len(s) = 1 + d
          /\ \A k \in 1..(1 + d) : s[k] = IF k <= 1 THEN <<0>>[k] ELSE digits[k - 1]
      BY <1>7, <2>1, <3>1, ConcatProperties
    <3>3. QED
      BY <1>6, <3>2
  <2>4. ASSUME NEW k \in 1..(d + 1), NEW j, j = k + Width - (d + 1), j >= 1
        PROVE  s[k] = v[j]
    <3>1. CASE k = 1
      <4>1. j \in 1..(f - 1)
        BY <1>1, <1>6, <2>4, <3>1
      <4>2. QED
        BY <1>3, <2>3, <3>1, <4>1
    <3>2. CASE k # 1
      <4>1. PICK m : m = k - 1
        OBVIOUS
      <4>2. m \in 1..d /\ k \in 2..(d + 1) /\ m + Width - d = j
        BY <1>1, <1>6, <2>4, <3>2, <4>1
      <4>3. digits[m] = v[j]
        BY <1>8, <4>2
      <4>4. QED
        BY <2>3, <4>1, <4>2, <4>3
    <3>3. QED
      BY <3>1, <3>2
  <2>5. \A i \in 1..(Width - (d + 1)) : v[i] = 0
    BY <1>1, <1>3, <1>6
  <2>6. PICK n : n = d + 1
    OBVIOUS
  <2>7. /\ n \in 1..(Width + 1) /\ s \in Seq(Nat) /\ Len(s) = n
        /\ \A i \in 1..(Width - n) : v[i] = 0
        /\ \A k \in 1..n : k + Width - n >= 1 => s[k] = v[k + Width - n]
    <3>1. n \in 1..(Width + 1) /\ s \in Seq(Nat) /\ Len(s) = n
      BY <1>1, <1>6, <2>3, <2>6
    <3>2. \A i \in 1..(Width - n) : v[i] = 0
      BY <2>5, <2>6
    <3>3. ASSUME NEW k \in 1..n, k + Width - n >= 1
          PROVE  s[k] = v[k + Width - n]
      <4>1. PICK j : j = k + Width - n
        OBVIOUS
      <4>2. k \in 1..(d + 1) /\ j = k + Width - (d + 1) /\ j >= 1
        BY <2>6, <3>3, <4>1
      <4>3. s[k] = v[j]
        BY <2>4, <4>2
      <4>4. QED
        BY ONLY <4>1, <4>3
    <3>4. QED
      BY <3>1, <3>2, <3>3
  <2>8. QED
    BY ONLY <2>2, <2>7 DEF IsInteger
<1>11. QED
  BY <1>9, <1>10

(* At its length, enc holds the encoding s of the component v.             *)
Holds(enc, at, s, v) ==
  /\ v \in Components /\ IsInteger(s, v)
  /\ enc \in Seq(Nat) /\ at \in Nat /\ at >= 1 /\ at + Len(s) <= Len(enc)
  /\ enc[at] = Len(s) /\ \A k \in 1..Len(s) : enc[at + k] = s[k]

(* prvConvertToRawECDSASignature finds the component that was written.     *)
LEMMA ComponentFinds ==
  ASSUME NEW enc, NEW at, NEW s, NEW v, Holds(enc, at, s, v)
  PROVE  Component(enc, at) = v
<1>0. PICK n : n = Len(s)
  OBVIOUS
<1> USE <1>0 DEF Holds
<1>1. v \in Seq(Nat) /\ Len(v) = Width /\ Width \in Int /\ Width >= 1
  BY ComponentIsSeq
<1>2. /\ s \in Seq(Nat) /\ n \in 1..(Width + 1)
      /\ \A k \in 1..n : k + Width - n >= 1 => s[k] = v[k + Width - n]
      /\ \A i \in 1..(Width - n) : v[i] = 0
  BY DEF IsInteger
<1>3. \A j \in 1..Len(enc) : enc[j] \in Nat
  BY ElementOfSeq
<1>4. Len(enc) \in Nat
  BY LenProperties
<1>5. CASE n = Width + 1
  <2>1. PICK lo, hi : lo = at + 2 /\ hi = at + 1 + Width
    OBVIOUS
  <2>2. lo \in Int /\ hi \in Int /\ lo <= hi /\ hi - lo + 1 = Width /\ lo >= 1 /\ hi <= Len(enc)
    BY <1>1, <1>4, <1>5, <2>1
  <2>3. PICK read : read = SubSeq(enc, lo, hi)
    OBVIOUS
  <2>4. read \in Seq(Nat) /\ Len(read) = Width /\ \A i \in 1..Width : read[i] = enc[lo + i - 1]
    <3>1. \A j \in lo..hi : enc[j] \in Nat
      BY <1>3, <1>4, <2>2
    <3>2. QED
      BY <2>2, <2>3, <3>1, SubSeqProperties, SMTT(30)
  <2>5. ASSUME NEW i \in 1..Width
        PROVE  read[i] = v[i]
    <3>1. PICK k : k = i + 1
      OBVIOUS
    <3>2. /\ k \in 1..n /\ lo + i - 1 = at + k
          /\ k + Width - n = i /\ k + Width - n >= 1
      BY <1>1, <1>5, <2>1, <3>1
    <3>3. enc[at + k] = s[k]
      BY <3>2
    <3>4. s[k] = v[i]
      BY <1>2, <3>2
    <3>5. QED
      BY <2>4, <3>2, <3>3, <3>4
  <2>6. read = v
    BY <1>1, <2>4, <2>5, SeqEqual
  <2>7. QED
    BY <1>5, <2>1, <2>3, <2>6 DEF Component
<1>6. CASE n # Width + 1
  <2>1. n \in 1..Width
    BY <1>1, <1>2, <1>6
  <2>2. PICK z, read : z = Zeros(Width - n) /\ read = SubSeq(enc, at + 1, at + n)
    OBVIOUS
  <2>3. PICK w : w = Width - n
    OBVIOUS
  <2>4. w \in Nat /\ w + n = Width
    BY <1>1, <2>1, <2>3
  <2>5. z \in Seq(Nat) /\ Len(z) = w /\ \A i \in 1..w : z[i] = 0
    <3>1. z = [i \in 1..w |-> 0] /\ z \in [1..w -> Nat]
      BY <2>2, <2>3 DEF Zeros
    <3>2. z \in Seq(Nat)
      BY <2>4, <3>1, SeqDef
    <3>3. QED
      BY <2>4, <3>1, <3>2
  <2>6. read \in Seq(Nat) /\ Len(read) = n /\ \A k \in 1..n : read[k] = enc[at + k]
    <3>1. PICK lo, hi : lo = at + 1 /\ hi = at + n
      OBVIOUS
    <3>2. lo \in Int /\ hi \in Int /\ lo <= hi /\ hi - lo + 1 = n /\ lo >= 1 /\ hi <= Len(enc)
      BY <1>4, <2>1, <3>1
    <3>3. \A j \in lo..hi : enc[j] \in Nat
      BY <1>3, <1>4, <3>2
    <3>4. read \in Seq(Nat) /\ Len(read) = n /\ \A k \in 1..n : read[k] = enc[lo + k - 1]
      BY <2>2, <3>1, <3>2, <3>3, SubSeqProperties, SMTT(30)
    <3>5. \A k \in 1..n : lo + k - 1 = at + k
      BY <2>1, <3>1
    <3>6. QED
      BY <3>4, <3>5
  <2>7. PICK all : all = z \o read
    OBVIOUS
  <2>8. /\ all \in Seq(Nat) /\ Len(all) = Width
        /\ \A i \in 1..Width : all[i] = IF i <= w THEN z[i] ELSE read[i - w]
    <3>1. z \in Seq(Nat) /\ read \in Seq(Nat) /\ all = z \o read
      BY <2>5, <2>6, <2>7
    <3>2. /\ all \in Seq(Nat) /\ Len(all) = Len(z) + Len(read)
          /\ \A i \in 1..(Len(z) + Len(read)) :
                all[i] = IF i <= Len(z) THEN z[i] ELSE read[i - Len(z)]
      BY ONLY <3>1, Joined
    <3>3. Len(z) = w /\ Len(read) = n /\ w + n = Width
      BY <2>4, <2>5, <2>6
    <3>4. QED
      BY ONLY <3>2, <3>3
  <2>9. ASSUME NEW i \in 1..Width
        PROVE  all[i] = v[i]
    <3>1. CASE i <= w
      <4>1. i \in 1..w
        BY <2>4, <3>1
      <4>2. QED
        BY <1>2, <2>3, <2>5, <2>8, <3>1, <4>1
    <3>2. CASE ~(i <= w)
      <4>1. PICK k : k = i - w
        OBVIOUS
      <4>2. k \in 1..n /\ k + Width - n = i /\ k + Width - n >= 1
        BY <1>1, <2>1, <2>3, <2>4, <3>2, <4>1
      <4>3. all[i] = read[k]
        BY <2>8, <3>2, <4>1
      <4>4. read[k] = s[k]
        BY <2>6, <4>2
      <4>5. s[k] = v[i]
        BY <1>2, <4>2
      <4>6. QED
        BY <4>3, <4>4, <4>5
    <3>3. QED
      BY <3>1, <3>2
  <2>10. all = v
    BY <1>1, <2>8, <2>9, SeqEqual
  <2>11. QED
    BY <1>6, <2>2, <2>7, <2>10 DEF Component
<1>7. QED
  BY <1>5, <1>6

(* Where Encode puts the two integers.                                     *)
IsEncoding(enc, R, S) ==
  /\ enc \in Seq(Nat) /\ Len(enc) = 6 + Len(R) + Len(S)
  /\ enc[4] = Len(R) /\ \A k \in 1..Len(R) : enc[4 + k] = R[k]
  /\ enc[6 + Len(R)] = Len(S) /\ \A k \in 1..Len(S) : enc[6 + Len(R) + k] = S[k]

LEMMA EncodedAt ==
  ASSUME NEW sig, Integer(sig[1]) \in Seq(Nat), Integer(sig[2]) \in Seq(Nat)
  PROVE  IsEncoding(Encode(sig), Integer(sig[1]), Integer(sig[2]))
<1>1. PICK R, S, r, s, enc : /\ R = Integer(sig[1]) /\ S = Integer(sig[2])
                             /\ r = Len(R) /\ s = Len(S) /\ enc = Encode(sig)
  OBVIOUS
<1>2. R \in Seq(Nat) /\ S \in Seq(Nat)
  BY <1>1
<1>3. r \in Nat /\ s \in Nat
  BY <1>1, <1>2, LenProperties
<1>4. PICK a, b, c, d : /\ a = <<48, r + s + 4, 2, r>> /\ b = a \o R
                        /\ c = <<2, s>> /\ d = b \o c
  OBVIOUS
<1>5. a \in Seq(Nat) /\ Len(a) = 4 /\ a[4] = r /\ c \in Seq(Nat) /\ Len(c) = 2 /\ c[2] = s
  BY <1>3, <1>4
<1>6. enc = d \o S
  BY <1>1, <1>4 DEF Encode
<1>7. /\ b \in Seq(Nat) /\ Len(b) = 4 + r
      /\ \A i \in 1..(4 + r) : b[i] = IF i <= 4 THEN a[i] ELSE R[i - 4]
  <2>1. a \in Seq(Nat) /\ R \in Seq(Nat) /\ b = a \o R
    BY <1>2, <1>4, <1>5
  <2>2. Len(a) = 4 /\ Len(R) = r
    BY <1>1, <1>4, <1>5
  <2>3. /\ b \in Seq(Nat) /\ Len(b) = Len(a) + Len(R)
        /\ \A j \in 1..(Len(a) + Len(R)) :
              b[j] = IF j <= Len(a) THEN a[j] ELSE R[j - Len(a)]
    BY ONLY <2>1, Joined
  <2>4. QED
    BY ONLY <2>2, <2>3
<1>8. /\ d \in Seq(Nat) /\ Len(d) = 4 + r + 2
      /\ \A i \in 1..(4 + r + 2) : d[i] = IF i <= 4 + r THEN b[i] ELSE c[i - (4 + r)]
  <2>1. b \in Seq(Nat) /\ c \in Seq(Nat) /\ d = b \o c
    BY <1>4, <1>5, <1>7
  <2>2. Len(b) = 4 + r /\ Len(c) = 2
    BY <1>4, <1>5, <1>7
  <2>3. /\ d \in Seq(Nat) /\ Len(d) = Len(b) + Len(c)
        /\ \A j \in 1..(Len(b) + Len(c)) :
              d[j] = IF j <= Len(b) THEN b[j] ELSE c[j - Len(b)]
    BY ONLY <2>1, Joined
  <2>4. QED
    BY ONLY <2>2, <2>3
<1>9. /\ enc \in Seq(Nat) /\ Len(enc) = 4 + r + 2 + s
      /\ \A i \in 1..(4 + r + 2 + s) : enc[i] = IF i <= 4 + r + 2 THEN d[i] ELSE S[i - (4 + r + 2)]
  <2>1. d \in Seq(Nat) /\ S \in Seq(Nat) /\ enc = d \o S
    BY <1>2, <1>6, <1>8
  <2>2. Len(d) = 4 + r + 2 /\ Len(S) = s
    BY <1>1, <1>4, <1>5, <1>8
  <2>3. /\ enc \in Seq(Nat) /\ Len(enc) = Len(d) + Len(S)
        /\ \A j \in 1..(Len(d) + Len(S)) :
              enc[j] = IF j <= Len(d) THEN d[j] ELSE S[j - Len(d)]
    BY ONLY <2>1, Joined
  <2>4. QED
    BY ONLY <2>2, <2>3
<1>10. Len(enc) = 6 + r + s
  BY <1>3, <1>9
<1>11. enc[4] = r
  <2>1. 4 \in 1..(4 + r) /\ 4 \in 1..(4 + r + 2) /\ 4 \in 1..(4 + r + 2 + s)
    BY <1>3
  <2>2. QED
    BY <1>3, <1>5, <1>7, <1>8, <1>9, <2>1
<1>12. ASSUME NEW k \in 1..r
       PROVE  enc[4 + k] = R[k]
  <2>1. PICK i : i = 4 + k
    OBVIOUS
  <2>2. /\ i \in 1..(4 + r) /\ i \in 1..(4 + r + 2) /\ i \in 1..(4 + r + 2 + s)
        /\ ~(i <= 4) /\ i <= 4 + r /\ i <= 4 + r + 2 /\ i - 4 = k
    BY <1>3, <2>1
  <2>3. enc[i] = d[i] /\ d[i] = b[i] /\ b[i] = R[i - 4]
    BY <1>7, <1>8, <1>9, <2>2
  <2>4. QED
    BY <2>1, <2>2, <2>3
<1>13. enc[6 + r] = s
  <2>1. PICK i : i = 6 + r
    OBVIOUS
  <2>2. /\ i \in 1..(4 + r + 2) /\ i \in 1..(4 + r + 2 + s)
        /\ ~(i <= 4 + r) /\ i <= 4 + r + 2 /\ i - (4 + r) = 2
    BY <1>3, <2>1
  <2>3. enc[i] = d[i] /\ d[i] = c[i - (4 + r)]
    BY <1>8, <1>9, <2>2
  <2>4. QED
    BY <1>5, <2>1, <2>2, <2>3
<1>14. ASSUME NEW k \in 1..s
       PROVE  enc[6 + r + k] = S[k]
  <2>1. PICK i : i = 6 + r + k
    OBVIOUS
  <2>2. i \in 1..(4 + r + 2 + s) /\ ~(i <= 4 + r + 2) /\ i - (4 + r + 2) = k
    BY <1>3, <2>1
  <2>3. QED
    BY <1>9, <2>1, <2>2
<1>15. QED
  BY <1>1, <1>9, <1>10, <1>11, <1>12, <1>13, <1>14 DEF IsEncoding

(* Whatever the two components are, prvConvertToRawECDSASignature gives    *)
(* back what was encoded: full or short, with or without a leading zero,   *)
(* zero included, for any number of digits and any number of values of a   *)
(* digit.                                                                  *)
THEOREM ConversionIsExact ==
  ASSUME NEW sig \in Components \X Components
  PROVE  prvConvertToRawECDSASignature(Encode(sig)) = Raw(sig)
<1>1. sig[1] \in Components /\ sig[2] \in Components
  OBVIOUS
<1>2. PICK R, S : R = Integer(sig[1]) /\ S = Integer(sig[2])
  OBVIOUS
<1>3. IsInteger(R, sig[1]) /\ IsInteger(S, sig[2])
  BY <1>1, <1>2, IntegerIsInteger
<1>4. PICK r, s : r = Len(R) /\ s = Len(S)
  OBVIOUS
<1>5. R \in Seq(Nat) /\ S \in Seq(Nat) /\ r \in 1..(Width + 1) /\ s \in 1..(Width + 1)
  BY <1>3, <1>4 DEF IsInteger
<1>6. Width \in Int /\ r \in Nat /\ s \in Nat /\ r <= Width + 1 /\ s <= Width + 1
  BY <1>1, <1>4, <1>5, ComponentIsSeq
<1>7. PICK enc : enc = Encode(sig)
  OBVIOUS
<1>8. /\ enc \in Seq(Nat) /\ Len(enc) = 6 + r + s
      /\ enc[4] = r /\ \A k \in 1..r : enc[4 + k] = R[k]
      /\ enc[6 + r] = s /\ \A k \in 1..s : enc[6 + r + k] = S[k]
  <2>1. IsEncoding(Encode(sig), Integer(sig[1]), Integer(sig[2]))
    BY <1>2, <1>5, EncodedAt
  <2>2. IsEncoding(enc, R, S)
    BY <1>2, <1>7, <2>1
  <2>3. QED
    BY <1>4, <2>2 DEF IsEncoding
<1>9. Component(enc, 4) = sig[1]
  <2>1. 4 \in Nat /\ 4 >= 1 /\ 4 + r <= Len(enc)
    BY <1>6, <1>8
  <2>2. /\ sig[1] \in Components /\ IsInteger(R, sig[1]) /\ r = Len(R)
        /\ enc \in Seq(Nat) /\ enc[4] = r /\ \A k \in 1..r : enc[4 + k] = R[k]
    BY <1>1, <1>3, <1>4, <1>8
  <2>3. Holds(enc, 4, R, sig[1])
    BY <2>1, <2>2 DEF Holds
  <2>4. QED
    BY ONLY <2>3, ComponentFinds
<1>10. PICK next : next = 6 + r
  OBVIOUS
<1>11. Component(enc, next) = sig[2]
  <2>1. next \in Nat /\ next >= 1 /\ next + s <= Len(enc)
    BY <1>6, <1>8, <1>10
  <2>2. enc[next] = s /\ \A k \in 1..s : enc[next + k] = S[k]
    BY <1>8, <1>10
  <2>3. /\ sig[2] \in Components /\ IsInteger(S, sig[2]) /\ s = Len(S)
        /\ enc \in Seq(Nat)
    BY <1>1, <1>3, <1>4, <1>8
  <2>4. Holds(enc, next, S, sig[2])
    BY <2>1, <2>2, <2>3 DEF Holds
  <2>5. QED
    BY ONLY <2>4, ComponentFinds
<1>12. 4 + enc[4] + 2 = next /\ ~(enc[4] > Width + 1) /\ ~(enc[next] > Width + 1)
  BY <1>6, <1>8, <1>10
<1>13. QED
  BY <1>7, <1>9, <1>11, <1>12 DEF prvConvertToRawECDSASignature, Raw

-----------------------------------------------------------------------------
(* Results *)

(* In every behaviour of the platform layer, whatever is reset, aborted,   *)
(* written twice or refused on the way, both active slots hold the factory *)
(* image or one whose signature otaPal_CheckSignature verified, whole, as  *)
(* long as no failing query hid an image that waits to be accepted.        *)
THEOREM PalRunsGenuine == Spec => []OnlyGenuineRuns
<1>1. PalInv => OnlyGenuineRuns
  BY DEF PalInv, SlotsAreSafe, OnlyGenuineRuns
<1>2. QED
  BY <1>1, PalInvariant, PTL

(* The image that was permanent last is never lost: it runs, or it is      *)
(* whole in the staging slot while another waits to be accepted, and       *)
(* nothing is downloaded over it.                                          *)
THEOREM PalKeepsFallback == Spec => []FallbackKept
<1>1. PalInv => FallbackKept
  BY DEF PalInv, SlotsAreSafe, FallbackKept
<1>2. QED
  BY <1>1, PalInvariant, PTL

(* The chunks the agent counts as received are those otaPal_WriteBlock     *)
(* left in the staging slot of the job's image, failing writes included.   *)
THEOREM PalStagesReceived == Spec => []ReceivedIsStaged
<1>1. PalInv => ReceivedIsStaged
  BY DEF PalInv
<1>2. QED
  BY <1>1, PalInvariant, PTL

(* Every variable of the platform layer keeps its type.                    *)
THEOREM PalTypeCorrect == Spec => []TypeOK
<1>1. PalInv => TypeOK
  BY DEF PalInv
<1>2. QED
  BY <1>1, PalInvariant, PTL

(* The signature of every job the device is given is converted exactly, in *)
(* every state of every behaviour.                                         *)
THEOREM PalConvertsSignature == Spec => []SignatureIsConverted
<1>1. PalInv => SignatureIsConverted
  <2>1. SUFFICES ASSUME PalInv, job.sig # None
                 PROVE  prvConvertToRawECDSASignature(Encode(job.sig)) = Raw(job.sig)
    BY DEF SignatureIsConverted
  <2>2. job.sig \in Signatures
    BY <2>1 DEF PalInv, TypeOK, Jobs
  <2>3. job.sig \in Components \X Components
    BY <2>2, OtaPalAssumption
  <2>4. QED
    BY <2>3, ConversionIsExact
<1>2. QED
  BY <1>1, PalInvariant, PTL
=============================================================================

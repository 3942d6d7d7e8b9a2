-------------------------------- MODULE Files --------------------------------
(***************************************************************************)
(* Uploading an image (src/src/module/files, src/src/lib/s3): the picture  *)
(* is converted to its variants one after the other, and the upload of     *)
(* each is started, without waiting for it, as soon as it is converted; in *)
(* the end all uploads are awaited together.                               *)
(*                                                                         *)
(* Every request stores under a prefix of its own, so that a slot stands   *)
(* for one request, its variants and what is left of its uploads after it  *)
(* has failed.  Storage is modelled from how the code uses it.  A promise  *)
(* that is rejected while nothing awaits it ends the process, as is the    *)
(* default of Node.js; docker then starts it again (restart: unless-       *)
(* stopped in docker-compose.yml).                                         *)
(***************************************************************************)
EXTENDS Naturals

CONSTANT Calls      \* slots for requests

Variants == 0 .. 3  \* 0 is the original

Request == [pc : {"idle", "convert", "await", "answered", "failed"},
            variants : SUBSET Variants]     \* those the request is for

VARIABLES
    call,           \* the request of each slot
    upload          \* the uploads of each slot, by variant

vars == <<call, upload>>

TypeOK ==
    /\ call \in [Calls -> Request]
    /\ upload \in [Calls -> [Variants -> {"none", "running", "stored", "rejected"}]]

Init ==
    /\ call = [c \in Calls |-> [pc |-> "idle", variants |-> {}]]
    /\ upload = [c \in Calls |-> [v \in Variants |-> "none"]]

At(c, pc) == call[c].pc = pc
Goto(c, pc) == call' = [call EXCEPT ![c].pc = pc]

(* Promise.all has taken charge of the uploads once all of them are started. *)
Awaited(c) == \A v \in call[c].variants : upload[c][v] # "none"

(* The original, and one variant for each size. *)
UploadImage(c, sizes) ==
    /\ call[c].pc \in {"idle", "answered", "failed"}
    /\ \A v \in Variants : upload[c][v] # "running"
    /\ call' = [call EXCEPT ![c] = [pc |-> "convert", variants |-> 0 .. sizes]]
    /\ upload' = [upload EXCEPT ![c] = [v \in Variants |-> "none"]]

UploadProfileImage(c) == UploadImage(c, 3)
UploadPersonalityImage(c) == UploadImage(c, 1)
UploadJobTypeImage(c) == UploadImage(c, 1)
UploadCardBackgroundImage(c) == UploadImage(c, 1)

(* One conversion after the other, or one fails and the request with it,    *)
(* while the uploads run on.                                                *)
Convert(c) ==
    /\ At(c, "convert")
    /\ \/ \E v \in call[c].variants :
             /\ upload[c][v] = "none"
             /\ \A w \in Variants : w < v => upload[c][w] # "none"
             /\ upload' = [upload EXCEPT ![c][v] = "running"]
             /\ Goto(c, IF v + 1 \in call[c].variants THEN "convert" ELSE "await")
       \/ Goto(c, "failed") /\ UNCHANGED upload

Store(c) ==
    /\ \E v \in Variants :
          /\ upload[c][v] = "running"
          /\ upload' = [upload EXCEPT ![c][v] = "stored"]
    /\ UNCHANGED call

(* Everybody's requests end with the process, and what was not stored by    *)
(* then is not.                                                             *)
EndProcess ==
    /\ call' = [d \in Calls |->
                   IF call[d].pc \in {"convert", "await"}
                   THEN [call[d] EXCEPT !.pc = "failed"] ELSE call[d]]
    /\ upload' = [d \in Calls |-> [v \in Variants |->
                     IF upload[d][v] = "running" THEN "none" ELSE upload[d][v]]]

(* The first rejection fails the request, unless it comes before the        *)
(* uploads are awaited, or after the request has failed in between.         *)
Reject(c) ==
    \E v \in Variants :
        /\ upload[c][v] = "running"
        /\ IF Awaited(c)
           THEN /\ upload' = [upload EXCEPT ![c][v] = "rejected"]
                /\ Goto(c, "failed")
           ELSE EndProcess

(* Mutant: the original is not among the uploads that are awaited. *)
AnswerBeforeOriginal(c) ==
    /\ At(c, "await")
    /\ \A v \in call[c].variants \ {0} : upload[c][v] = "stored"
    /\ Goto(c, "answered")
    /\ UNCHANGED upload

Answer(c) ==
    /\ At(c, "await")
    /\ \A v \in call[c].variants : upload[c][v] = "stored"
    /\ Goto(c, "answered")
    /\ UNCHANGED upload

FilesController(c) ==
    \/ UploadProfileImage(c) \/ UploadPersonalityImage(c)
    \/ UploadJobTypeImage(c) \/ UploadCardBackgroundImage(c)
    \/ Convert(c) \/ Answer(c)

Next ==
    \/ \E c \in Calls : FilesController(c) \/ Store(c) \/ Reject(c)
    \/ EndProcess

Spec == Init /\ [][Next]_vars

-----------------------------------------------------------------------------
(* An address that was answered names a complete set of images, and keeps   *)
(* doing so: no upload of it is under way that may still fail or get lost   *)
(* with the process, whatever failed meanwhile in this request or another   *)
(* (files.service.ts:84-98).                                                *)
AnsweredImagesAreComplete ==
    \A c \in Calls :
        At(c, "answered") => \A v \in call[c].variants : upload[c][v] = "stored"
=============================================================================

-------------------------- MODULE Diagnosis_proofs --------------------------
(***************************************************************************)
(* Proofs about a diagnosis, in three parts.                               *)
(*                                                                         *)
(* The deep reads of a failing pod: whatever is so of the cluster, however *)
(* it changes between two reads and whichever of them fails, what is said  *)
(* of the pod was so at a moment of the investigation, and what stayed so  *)
(* is said, if its read was answered.  A read is of one moment, and what   *)
(* is recorded is never recorded again.  So the invariant names, for each  *)
(* answer, a world of the investigation that it is the answer of; only     *)
(* what cannot be changed in a pod lets two answers of different moments   *)
(* be read together, the references of a pod and the objects they are to.  *)
(*                                                                         *)
(* What a pod's state says of it: round after round of a crash loop the    *)
(* same is said, and a pod that is stable again is not blamed for its past.*)
(*                                                                         *)
(* The graph of an incident: what is said to be broken is.                 *)
(***************************************************************************)
EXTENDS MCDiagnosis, WellFoundedInduction, FiniteSetTheorems, TLAPS

Slots == Targeted!Collectors \cup Targeted!Referable

(* The moments: what is so now is one of them, each is one that may be,    *)
(* and in all of them the pod has the same spec.                           *)
Moments ==
  /\ triggered \in DOMAIN Worlds
  /\ actual \in ever /\ ever \subseteq Worlds[triggered]
  /\ \A w \in ever : Targeted!Fixed(w) = Targeted!Fixed(actual)

(* An answer with data is of one of the moments; what has none failed.     *)
OfOne(c) ==
  got[c] # None =>
    \/ got[c].data = None /\ got[c].status \in Degraded
    \/ c = "previous"
    \/ \E w \in ever : got[c] = Targeted!Record(w)[c]

(* An object that was looked up was so at one of the moments.              *)
Found(k) ==
  got[k] # None =>
    \/ got[k] = Targeted!Unknown
    \/ \E w \in ever : got[k] = Targeted!Resolve(w, k)

(* What is known of the references is what is known of the objects they    *)
(* are to, each of them looked up.                                         *)
Joined ==
  Targeted!HasData("references") =>
    /\ got["spec"] # None /\ Targeted!Usable(got["spec"])
    /\ \A k \in Targeted!Wanted : got[k] # None
    /\ got["references"].data = Targeted!References

Recorded ==
  /\ Moments
  /\ DOMAIN got = Slots
  /\ \A c \in Targeted!Collectors \ {"references"} : OfOne(c)
  /\ \A k \in Targeted!Referable : Found(k)
  /\ Joined

----------------------------------------------------------------------------

LEMMA Assumed == Targeted!DeepAssumption
BY DiagnosisAssumption

LEMMA StringsDiffer ==
  /\ {"references", "previous", "spec"} \subseteq Targeted!Collectors
  /\ Targeted!Collectors \cap Targeted!Referable = {}
  /\ \A k \in Targeted!Referable : k # "spec" /\ k # "references"
BY DEF Targeted!Collectors, Targeted!Plans, Targeted!Referable

(* What is recorded of the world as it is keeps the invariant.             *)
LEMMA RecordsKeep ==
  ASSUME Recorded, NEW c \in Slots, NEW e, Targeted!Records(c, e), got[c] = None,
         c \in Targeted!Collectors \ {"references"} =>
           \/ e.data = None /\ e.status \in Degraded
           \/ c = "previous"
           \/ e = Targeted!Record(actual)[c],
         c \in Targeted!Referable =>
           e = Targeted!Unknown \/ e = Targeted!Resolve(actual, c),
         c = "references" /\ e.data # None =>
           /\ got["spec"] # None /\ Targeted!Usable(got["spec"])
           /\ \A k \in Targeted!Wanted : got[k] # None
           /\ e.data = Targeted!References
  PROVE  Recorded'
<1>1. /\ got' = [got EXCEPT ![c] = e]
      /\ triggered' = triggered /\ actual' = actual /\ ever' = ever
  BY DEF Targeted!Records
<1>2. /\ DOMAIN got' = Slots /\ got'[c] = e
      /\ \A d \in Slots \ {c} : got'[d] = got[d]
  BY <1>1 DEF Recorded
<1>3. Moments'
  <2>1. Moments
    BY DEF Recorded
  <2>2. QED
    BY <1>1, <2>1 DEF Moments, Targeted!Fixed
<1>4. ASSUME NEW d \in Targeted!Collectors \ {"references"}
      PROVE  OfOne(d)'
  <2>1. OfOne(d) /\ actual \in ever /\ d \in Slots
    BY DEF Recorded, Moments, Slots
  <2>2. CASE d = c
    BY <1>1, <1>2, <2>1, <2>2 DEF OfOne
  <2>3. CASE d # c
    BY <1>1, <1>2, <2>1, <2>3 DEF OfOne
  <2>4. QED
    BY <2>2, <2>3
<1>5. ASSUME NEW k \in Targeted!Referable
      PROVE  Found(k)'
  <2>1. Found(k) /\ actual \in ever /\ k \in Slots
    BY DEF Recorded, Moments, Slots
  <2>2. CASE k = c
    BY <1>1, <1>2, <2>1, <2>2 DEF Found
  <2>3. CASE k # c
    BY <1>1, <1>2, <2>1, <2>3 DEF Found
  <2>4. QED
    BY <2>2, <2>3
<1>6. ASSUME Targeted!HasData("references")'
      PROVE  /\ got["spec"] # None /\ Targeted!Usable(got["spec"])
             /\ \A k \in Targeted!Wanted : got[k] # None
             /\ got'["references"].data = Targeted!References
  <2>1. "references" \in Slots
    BY StringsDiffer DEF Slots
  <2>2. CASE c = "references"
    BY <1>2, <1>6, <2>2 DEF Targeted!HasData
  <2>3. CASE c # "references"
    <3>1. got'["references"] = got["references"]
      BY <1>2, <2>1, <2>3
    <3>2. Joined /\ Targeted!HasData("references")
      BY <1>6, <3>1 DEF Targeted!HasData, Recorded
    <3>3. QED
      BY <3>1, <3>2 DEF Joined
  <2>4. QED
    BY <2>2, <2>3
<1>7. Joined'
  <2>1. SUFFICES ASSUME Targeted!HasData("references")'
                 PROVE  /\ got'["spec"] # None /\ Targeted!Usable(got["spec"])'
                        /\ \A k \in Targeted!Wanted' : got'[k] # None
                        /\ got'["references"].data = Targeted!References'
    BY DEF Joined
  <2>2. got'["spec"] = got["spec"]
    BY <1>2, <1>6, <2>1, StringsDiffer DEF Slots
  <2>3. Targeted!Wanted' = Targeted!Wanted
    BY <2>2 DEF Targeted!Wanted
  <2>4. \A k \in Targeted!Wanted : got'[k] = got[k]
    BY <1>2, <1>6, <2>1 DEF Slots, Targeted!Wanted
  <2>5. \A k \in Targeted!Wanted : Targeted!MissingKeys(k)' = Targeted!MissingKeys(k)
    BY <2>2, <2>4 DEF Targeted!MissingKeys
  <2>6. Targeted!References' = Targeted!References
    BY <2>3, <2>4, <2>5 DEF Targeted!References
  <2>7. QED
    BY <1>6, <2>1, <2>2, <2>3, <2>4, <2>6 DEF Targeted!Usable
<1>8. QED
  BY <1>2, <1>3, <1>4, <1>5, <1>7 DEF Recorded

LEMMA RecordedStart == MCInit => Recorded
<1>1. SUFFICES ASSUME Targeted!Init PROVE Recorded
  BY DEF MCInit
<1>2. Moments
  BY <1>1 DEF Targeted!Init, Moments
<1>3. DOMAIN got = Slots /\ \A c \in Slots : got[c] = None
  BY <1>1 DEF Targeted!Init, Slots
<1>4. QED
  BY <1>2, <1>3, StringsDiffer
  DEF Recorded, OfOne, Found, Joined, Targeted!HasData, Slots

LEMMA RecordedKept == Recorded /\ [MCNext]_MCvars => Recorded'
<1>1. SUFFICES ASSUME Recorded, Targeted!Next \/ UNCHANGED deepVars PROVE Recorded'
  BY DEF MCNext, MCvars, OfSignals, OfIncident, OfPods, OfPlans, OfAnswers, OfReads
<1>2. CASE UNCHANGED deepVars
  BY <1>1, <1>2 DEF deepVars, Recorded, Moments, OfOne, Found, Joined, Slots,
     Targeted!HasData, Targeted!Usable, Targeted!Wanted, Targeted!References,
     Targeted!MissingKeys, Targeted!Fixed
<1>3. CASE Targeted!Turn
  <2>1. /\ triggered' = triggered /\ got' = got /\ ever' = ever \cup {actual'}
        /\ actual' \in Worlds[triggered]
        /\ Targeted!Fixed(actual') = Targeted!Fixed(actual)
    BY <1>3 DEF Targeted!Turn
  <2>2. Moments'
    <3>1. Moments
      BY <1>1 DEF Recorded
    <3>2. QED
      BY <2>1, <3>1 DEF Moments, Targeted!Fixed
  <2>3. \A c \in Targeted!Collectors \ {"references"} : OfOne(c)'
    BY <1>1, <2>1 DEF Recorded, OfOne
  <2>4. \A k \in Targeted!Referable : Found(k)'
    BY <1>1, <2>1 DEF Recorded, Found
  <2>5. Joined'
    BY <1>1, <2>1 DEF Recorded, Joined, Targeted!HasData, Targeted!Usable,
       Targeted!Wanted, Targeted!References, Targeted!MissingKeys
  <2>6. QED
    BY <1>1, <2>1, <2>2, <2>3, <2>4, <2>5 DEF Recorded, Slots
<1>4. CASE \E c \in Targeted!Collectors : Targeted!Reads(c)
  <2>1. PICK c \in Targeted!Collectors : Targeted!Reads(c)
    BY <1>4
  <2>2. /\ c # "references" /\ got[c] = None /\ c \in Slots /\ c \notin Targeted!Referable
        /\ Targeted!Records(c, Targeted!Record(actual)[c])
    BY <2>1, StringsDiffer DEF Targeted!Reads, Slots
  <2>3. QED
    BY <1>1, <2>2, RecordsKeep
<1>5. CASE \E c \in Targeted!Collectors : Targeted!Fails(c)
  <2>1. PICK c \in Targeted!Collectors, status \in Degraded :
          got[c] = None /\ Targeted!Records(c, Targeted!Failed(status))
    BY <1>5 DEF Targeted!Fails
  <2>2. c \in Slots /\ c \notin Targeted!Referable
    BY StringsDiffer DEF Slots
  <2>3. Targeted!Failed(status).data = None /\ Targeted!Failed(status).status \in Degraded
    BY DEF Targeted!Failed, Targeted!Evidence
  <2>4. QED
    BY <1>1, <2>1, <2>2, <2>3, RecordsKeep
<1>6. CASE \E k \in Targeted!Referable : Targeted!Looks(k)
  <2>1. PICK k \in Targeted!Referable : Targeted!Looks(k)
    BY <1>6
  <2>2. /\ k \in Slots /\ k \notin Targeted!Collectors /\ k # "references"
        /\ got[k] = None
        /\ \/ Targeted!Records(k, Targeted!Resolve(actual, k))
           \/ Targeted!Records(k, Targeted!Unknown)
    BY <2>1, StringsDiffer DEF Targeted!Looks, Slots
  <2>3. CASE Targeted!Records(k, Targeted!Resolve(actual, k))
    BY <1>1, <2>2, <2>3, RecordsKeep
  <2>4. CASE Targeted!Records(k, Targeted!Unknown)
    BY <1>1, <2>2, <2>4, RecordsKeep
  <2>5. QED
    BY <2>2, <2>3, <2>4
<1>7. CASE Targeted!NoPrevious
  <2>1. /\ got["previous"] = None
        /\ Targeted!Records("previous", Targeted!Evidence("empty", FALSE))
    BY <1>7 DEF Targeted!NoPrevious
  <2>2. "previous" \in Slots /\ "previous" \notin Targeted!Referable
    BY StringsDiffer DEF Slots
  <2>3. QED
    BY <1>1, <2>1, <2>2, RecordsKeep
<1>8. CASE Targeted!Unspecified
  <2>1. /\ "references" \in Slots /\ "references" \notin Targeted!Referable
        /\ got["references"] = None
        /\ Targeted!Records("references", Targeted!Failed("not_applicable"))
    BY <1>8, StringsDiffer DEF Targeted!Unspecified, Slots
  <2>2. Targeted!Failed("not_applicable").data = None
    BY DEF Targeted!Failed, Targeted!Evidence
  <2>3. QED
    BY <1>1, <2>1, <2>2, RecordsKeep
<1>9. CASE Targeted!Resolves
  <2>1. PICK status : Targeted!Records("references", Targeted!Evidence(status, Targeted!References))
    BY <1>9 DEF Targeted!Resolves
  <2>2. /\ "references" \in Slots /\ "references" \notin Targeted!Referable
        /\ got["references"] = None /\ got["spec"] # None
        /\ Targeted!Usable(got["spec"]) /\ \A k \in Targeted!Wanted : got[k] # None
    BY <1>9, StringsDiffer DEF Targeted!Resolves, Targeted!Usable, Slots
  <2>3. Targeted!Evidence(status, Targeted!References).data = Targeted!References
    BY DEF Targeted!Evidence
  <2>4. QED
    BY <1>1, <2>1, <2>2, <2>3, RecordsKeep
<1>10. QED
  BY <1>1, <1>2, <1>3, <1>4, <1>5, <1>6, <1>7, <1>8, <1>9 DEF Targeted!Next

----------------------------------------------------------------------------
(* What was recorded of a moment, and what the rules read of it.           *)

LEMMA RecordedOf ==
  ASSUME Recorded, NEW c \in Targeted!Collectors \ {"references", "previous"},
         Targeted!HasData(c)
  PROVE  \E w \in ever : got[c] = Targeted!Record(w)[c]
BY DEF Recorded, OfOne, Targeted!HasData

LEMMA MomentsAreWorlds ==
  ASSUME Recorded
  PROVE  /\ ever \subseteq Targeted!World /\ actual \in ever
         /\ \A v \in ever, w \in ever : v.refs = w.refs
<1>1. Worlds[triggered] \subseteq Targeted!World
  BY Assumed DEF Targeted!DeepAssumption, Recorded, Moments
<1>2. \A w \in ever : w.refs = actual.refs
  BY DEF Recorded, Moments, Targeted!Fixed
<1>3. QED
  BY <1>1, <1>2 DEF Recorded, Moments

(* How a container ended, by what is recorded of it.                       *)
LEMMA Endings ==
  ASSUME NEW w \in Targeted!World
  PROVE  LET exit == Targeted!Ending[w.ended]
         IN /\ exit.reason = "OOMKilled" <=> w.ended = "memory"
            /\ exit.reason # "OOMKilled" /\ exit.code = "137" <=> w.ended = "killed"
            /\ (/\ exit.reason # "OOMKilled"
                /\ exit.code \notin {"none", "0", "137", "143"}) <=> w.ended = "failed"
<1>1. w.ended \in {"not", "done", "failed", "asked", "killed", "memory"}
  BY DEF Targeted!World, Targeted!Ending
<1>2. /\ Targeted!Ending["not"].reason = "" /\ Targeted!Ending["not"].code = "none"
      /\ Targeted!Ending["done"].reason = "Completed" /\ Targeted!Ending["done"].code = "0"
      /\ Targeted!Ending["failed"].reason = "Error" /\ Targeted!Ending["failed"].code = "1"
      /\ Targeted!Ending["asked"].reason = "Error" /\ Targeted!Ending["asked"].code = "143"
      /\ Targeted!Ending["killed"].reason = "Error" /\ Targeted!Ending["killed"].code = "137"
      /\ Targeted!Ending["memory"].reason = "OOMKilled" /\ Targeted!Ending["memory"].code = "137"
  BY DEF Targeted!Ending, Targeted!Exit
<1>3. QED
  BY <1>1, <1>2

(* What an event says, by what caused it.                                  *)
Pull(e) ==
  e.reason \in {"Failed", "FailedPull", "ErrImagePull"} /\ Targeted!_is_image_event(e)
Denied(e) == {"unauthorized", "authentication", "403"} \cap e.phrases # {}

LEMMA Wordings ==
  ASSUME NEW x \in DOMAIN Targeted!Wording
  PROVE  LET e == Targeted!Wording[x]
         IN /\ e.reason = "FailedScheduling" /\ "insufficient" \in e.phrases <=> x = "short"
            /\ (/\ e.reason = "FailedScheduling" /\ "insufficient" \notin e.phrases
                /\ "taint" \in e.phrases) <=> x = "tainted"
            /\ Pull(e) /\ Denied(e) <=> x \in {"imageDenied", "imageRefused"}
            /\ Pull(e) /\ ~Denied(e) /\ "not found" \in e.phrases <=> x = "imageGone"
<1> DEFINE W == Targeted!Wording
<1>1. x \in {"imageGone", "imageDenied", "imageRefused", "configGone", "accessDenied",
             "mountGone", "pulling", "short", "tainted", "unbound"}
  BY DEF Targeted!Wording
<1>2. /\ W["imageGone"].reason = "Failed"
      /\ W["imageDenied"].reason = "Failed"
      /\ W["imageRefused"].reason = "ErrImagePull"
      /\ W["configGone"].reason = "Failed"
      /\ W["accessDenied"].reason = "Failed"
      /\ W["mountGone"].reason = "FailedMount"
      /\ W["pulling"].reason = "BackOff"
      /\ W["short"].reason = "FailedScheduling"
      /\ W["tainted"].reason = "FailedScheduling"
      /\ W["unbound"].reason = "FailedScheduling"
  BY DEF Targeted!Wording, Targeted!Message
<1>11. /\ W["imageGone"].phrases = {"failed to pull", "not found"}
       /\ W["imageDenied"].phrases = {"failed to pull", "unauthorized", "403"}
       /\ W["imageRefused"].phrases = {"authentication", "not found"}
       /\ W["configGone"].phrases = {"not found"}
       /\ W["accessDenied"].phrases = {"403"}
       /\ W["mountGone"].phrases = {"not found"}
       /\ W["pulling"].phrases = {"imagepullbackoff", "not found"}
       /\ W["short"].phrases = {"insufficient", "taint"}
       /\ W["tainted"].phrases = {"taint"}
       /\ W["unbound"].phrases = {"unbound"}
  BY DEF Targeted!Wording, Targeted!Message
<1>3. \A e : /\ Targeted!_is_image_event(e) <=>
               \/ e.reason \in {"FailedPull", "ErrImagePull"}
               \/ "failed to pull" \in e.phrases \/ "imagepullbackoff" \in e.phrases
             /\ Denied(e) <=>
               \/ "unauthorized" \in e.phrases \/ "authentication" \in e.phrases
               \/ "403" \in e.phrases
  BY DEF Targeted!_is_image_event, Denied
<1> HIDE DEF W
<1>4. W[x].reason = "FailedScheduling" <=> x \in {"short", "tainted", "unbound"}
  BY <1>1, <1>2
<1>9. "insufficient" \in W[x].phrases <=> x = "short"
  <2>1. "insufficient" \in W["short"].phrases
    BY <1>11
  <2>2. "insufficient" \notin W["imageGone"].phrases
    BY <1>11
  <2>3. "insufficient" \notin W["imageDenied"].phrases
    BY <1>11
  <2>4. "insufficient" \notin W["imageRefused"].phrases
    BY <1>11
  <2>5. "insufficient" \notin W["configGone"].phrases
    BY <1>11
  <2>6. "insufficient" \notin W["accessDenied"].phrases
    BY <1>11
  <2>7. "insufficient" \notin W["mountGone"].phrases
    BY <1>11
  <2>8. "insufficient" \notin W["pulling"].phrases
    BY <1>11
  <2>9. "insufficient" \notin W["tainted"].phrases
    BY <1>11
  <2>10. "insufficient" \notin W["unbound"].phrases
    BY <1>11
  <2>11. QED
    BY ONLY <1>1, <2>1, <2>2, <2>3, <2>4, <2>5, <2>6, <2>7, <2>8, <2>9, <2>10
<1>10. "taint" \in W[x].phrases <=> x \in {"short", "tainted"}
  BY <1>1, <1>11
<1>5. Pull(W[x]) <=> x \in {"imageGone", "imageDenied", "imageRefused"}
  BY <1>1, <1>2, <1>11, <1>3 DEF Pull
<1>6. Denied(W[x]) <=> x \in {"imageDenied", "imageRefused", "accessDenied"}
  BY <1>1, <1>2, <1>11, <1>3
<1>7. "not found" \in W[x].phrases <=>
        x \in {"imageGone", "imageRefused", "configGone", "mountGone", "pulling"}
  BY <1>1, <1>11
<1>8. QED
  BY <1>4, <1>5, <1>6, <1>7, <1>9, <1>10 DEF W

----------------------------------------------------------------------------
(* What the rules say of an answer is what was so at its moment.           *)

LEMMA SpecSays ==
  ASSUME NEW w \in Targeted!World,
         Targeted!HasData("spec"), got["spec"] = Targeted!Record(w)["spec"]
  PROVE  Targeted!ContainerTerminationRule \cup Targeted!ProbeConfigurationRule
           = Targeted!SoOfSpec(w)
<1> DEFINE spec == got["spec"].data
<1>1. spec = Targeted!PodSpec(w)
  BY DEF Targeted!Record, Targeted!Evidence
<1>2. /\ spec.last = Targeted!Ending[w.ended]
      /\ spec.restarts = w.restarted /\ spec.limit = w.limited
      /\ spec.probes.liveness = w.liveness /\ spec.probes.startup = w.startup
  BY <1>1 DEF Targeted!PodSpec, Targeted!Probes
<1>3. w.restarted \in BOOLEAN /\ w.limited \in BOOLEAN /\ w.startup \in BOOLEAN
  BY DEF Targeted!World
<1> HIDE DEF spec
<1>4. /\ spec.last.reason = "OOMKilled" <=> w.ended = "memory"
      /\ spec.last.reason # "OOMKilled" /\ spec.last.code = "137" <=> w.ended = "killed"
      /\ (/\ spec.last.reason # "OOMKilled"
          /\ spec.last.code \notin {"none", "0", "137", "143"}) <=> w.ended = "failed"
  BY <1>2, Endings
<1>5. Targeted!ContainerTerminationRule =
        Targeted!SaidIf(w.ended = "memory", "container.oom_exit_code")
          \cup Targeted!SaidIf(w.ended = "killed", "container.killed")
          \cup Targeted!SaidIf(w.ended = "failed", "container.nonzero_exit_code")
          \cup Targeted!SaidIf(w.restarted /\ ~w.limited, "container.no_memory_limit")
  BY <1>2, <1>3, <1>4 DEF spec, Targeted!ContainerTerminationRule, Targeted!SaidIf
<1>6. Targeted!ProbeConfigurationRule =
        Targeted!SaidIf(w.liveness = "soon" /\ ~w.startup, "probe.aggressive")
  BY <1>2, <1>3 DEF spec, Targeted!ProbeConfigurationRule, Targeted!SaidIf
<1>7. QED
  BY <1>5, <1>6 DEF Targeted!SoOfSpec

(* Of the events only the first are kept.                                  *)
LEMMA EventsSay ==
  ASSUME NEW w \in Targeted!World,
         Targeted!HasData("events"), got["events"] = Targeted!Record(w)["events"]
  PROVE  LET rules == Targeted!SchedulingEventRule \cup Targeted!ImagePullEventRule
         IN /\ rules \subseteq Targeted!SoOfEvents(w)
            /\ ~(Len(w.events) > MaxEvents) => Targeted!SoOfEvents(w) \subseteq rules
<1> DEFINE kept == {w.events[i] : i \in {j \in DOMAIN w.events : j <= MaxEvents}}
           W == Targeted!Wording
           H == Targeted!Heard
<1>1. H = {W[x] : x \in kept}
  BY DEF Targeted!Record, Targeted!Evidence, Targeted!Listed, Targeted!KeptEvents, Targeted!Heard
<1>2. w.events \in Seq(DOMAIN W)
  BY DEF Targeted!World
<1>3. kept \subseteq DOMAIN W
  BY <1>2
<1>4. /\ \A causes : kept \cap causes # {} => Targeted!Happened(w, causes)
      /\ ~(Len(w.events) > MaxEvents) =>
           \A causes : Targeted!Happened(w, causes) => kept \cap causes # {}
  <2>1. \A causes : kept \cap causes # {} => Targeted!Happened(w, causes)
    BY DEF Targeted!Happened
  <2>2. ASSUME ~(Len(w.events) > MaxEvents), NEW causes, Targeted!Happened(w, causes)
        PROVE  kept \cap causes # {}
    <3>1. PICK i \in DOMAIN w.events : w.events[i] \in causes
      BY <2>2 DEF Targeted!Happened
    <3>2. i <= MaxEvents
      BY <1>2, <2>2, <3>1, Assumed DEF Targeted!DeepAssumption
    <3>3. QED
      BY <3>1, <3>2
  <2>3. QED
    BY <2>1, <2>2
<1> HIDE DEF kept, W, H
<1>5. \A x \in kept :
        /\ W[x].reason = "FailedScheduling" /\ "insufficient" \in W[x].phrases <=> x = "short"
        /\ (/\ W[x].reason = "FailedScheduling" /\ "insufficient" \notin W[x].phrases
            /\ "taint" \in W[x].phrases) <=> x = "tainted"
        /\ Pull(W[x]) /\ Denied(W[x]) <=> x \in {"imageDenied", "imageRefused"}
        /\ Pull(W[x]) /\ ~Denied(W[x]) /\ "not found" \in W[x].phrases <=> x = "imageGone"
  BY <1>3, Wordings DEF W
<1>6. Targeted!SchedulingEventRule =
        Targeted!SaidIf("short" \in kept, "scheduling.insufficient_resources")
          \cup Targeted!SaidIf("tainted" \in kept, "scheduling.taint_blocked")
  <2> DEFINE unplaced == {e \in H : e.reason = "FailedScheduling"}
             insufficient == {e \in unplaced : "insufficient" \in e.phrases}
  <2>1. insufficient # {} <=> "short" \in kept
    <3>1. ASSUME "short" \in kept PROVE insufficient # {}
      <4>1. W["short"] \in insufficient
        BY <1>1, <1>5, <3>1
      <4>2. QED
        BY <4>1
    <3>2. ASSUME NEW e \in insufficient PROVE "short" \in kept
      <4>1. PICK x \in kept : e = W[x]
        BY <1>1
      <4>2. QED
        BY <1>5, <4>1
    <3>3. QED
      BY <3>1, <3>2
  <2>2. (\E e \in unplaced \ insufficient : "taint" \in e.phrases) <=> "tainted" \in kept
    <3>1. ASSUME "tainted" \in kept
          PROVE  \E e \in unplaced \ insufficient : "taint" \in e.phrases
      <4>1. W["tainted"] \in unplaced \ insufficient /\ "taint" \in W["tainted"].phrases
        BY <1>1, <1>5, <3>1
      <4>2. QED
        BY <4>1
    <3>2. ASSUME NEW e \in unplaced \ insufficient, "taint" \in e.phrases
          PROVE  "tainted" \in kept
      <4>1. PICK x \in kept : e = W[x]
        BY <1>1
      <4>2. QED
        BY <1>5, <3>2, <4>1
    <3>3. QED
      BY <3>1, <3>2
  <2>3. Targeted!SchedulingEventRule =
          Targeted!SaidIf(insufficient # {}, "scheduling.insufficient_resources")
            \cup Targeted!SaidIf(\E e \in unplaced \ insufficient : "taint" \in e.phrases,
                                "scheduling.taint_blocked")
    BY DEF Targeted!SchedulingEventRule, H
  <2> HIDE DEF unplaced, insufficient
  <2>4. QED
    BY <2>1, <2>2, <2>3 DEF Targeted!SaidIf
<1>7. Targeted!ImagePullEventRule =
        Targeted!SaidIf("imageDenied" \in kept \/ "imageRefused" \in kept,
                        "image.pull_unauthorized")
          \cup Targeted!SaidIf("imageGone" \in kept, "image.not_found")
  <2> DEFINE pulls == {e \in H : Pull(e)}
             denied == {e \in pulls : Denied(e)}
  <2>1. denied # {} <=> "imageDenied" \in kept \/ "imageRefused" \in kept
    BY <1>1, <1>5
  <2>2. (\E e \in pulls \ denied : "not found" \in e.phrases) <=> "imageGone" \in kept
    BY <1>1, <1>5
  <2>3. Targeted!ImagePullEventRule =
          Targeted!SaidIf(denied # {}, "image.pull_unauthorized")
            \cup Targeted!SaidIf(\E e \in pulls \ denied : "not found" \in e.phrases,
                                "image.not_found")
    BY DEF Targeted!ImagePullEventRule, H, Pull, Denied
  <2> HIDE DEF pulls, denied
  <2>4. QED
    BY <2>1, <2>2, <2>3 DEF Targeted!SaidIf
<1>8. /\ "short" \in kept <=> kept \cap {"short"} # {}
      /\ "tainted" \in kept <=> kept \cap {"tainted"} # {}
      /\ "imageDenied" \in kept \/ "imageRefused" \in kept
           <=> kept \cap {"imageDenied", "imageRefused"} # {}
      /\ "imageGone" \in kept <=> kept \cap {"imageGone"} # {}
  OBVIOUS
<1>9. QED
  BY <1>4, <1>6, <1>7, <1>8 DEF Targeted!SoOfEvents, Targeted!SaidIf

LEMMA QuotasSay ==
  ASSUME NEW w \in Targeted!World,
         Targeted!HasData("quotas"), got["quotas"] = Targeted!Record(w)["quotas"]
  PROVE  /\ Targeted!QuotaRule \subseteq Targeted!SoOfQuotas(w)
         /\ (\A q \in w.quotas : "P" \notin {q.hard.unit, q.used.unit}) =>
              Targeted!SoOfQuotas(w) \subseteq Targeted!QuotaRule
<1>1. got["quotas"].data = w.quotas
  BY DEF Targeted!Record, Targeted!Evidence, Targeted!Listed
<1>2. \A q \in w.quotas : q.hard \in Targeted!Quantity /\ q.used \in Targeted!Quantity
  BY DEF Targeted!World, Targeted!Quota
<1>3. \A x \in Targeted!Quantity :
        /\ Targeted!Amount(x) \in Nat
        /\ Targeted!_normalize(x) = IF x.unit = "P" THEN 0 ELSE Targeted!Amount(x)
  <2>1. ASSUME NEW x \in Targeted!Quantity PROVE Targeted!Amount(x) \in Nat
    <3>1. x.n \in Nat /\ x.unit \in {"m", "one", "k", "P"}
      BY DEF Targeted!Quantity, Targeted!Worth
    <3>2. Targeted!Worth[x.unit] \in {1, 1000, 1000000, 1000000000}
      BY <3>1 DEF Targeted!Worth
    <3>3. QED
      BY <3>1, <3>2 DEF Targeted!Amount
  <2>2. QED
    BY <2>1 DEF Targeted!_normalize
<1>4. \A q \in w.quotas :
        Targeted!_normalize(q.used) >= Targeted!_normalize(q.hard)
            /\ Targeted!_normalize(q.hard) > 0 =>
          Targeted!Amount(q.used) >= Targeted!Amount(q.hard) /\ Targeted!Amount(q.hard) > 0
  BY <1>2, <1>3
<1>5. \A q \in w.quotas : "P" \notin {q.hard.unit, q.used.unit} =>
        /\ Targeted!_normalize(q.used) = Targeted!Amount(q.used)
        /\ Targeted!_normalize(q.hard) = Targeted!Amount(q.hard)
  BY <1>2, <1>3
<1>6. QED
  BY <1>1, <1>4, <1>5 DEF Targeted!QuotaRule, Targeted!SoOfQuotas, Targeted!SaidIf

LEMMA ClassesSay ==
  ASSUME NEW w \in Targeted!World,
         Targeted!HasData("classes"), got["classes"] = Targeted!Record(w)["classes"]
  PROVE  Targeted!StorageClassRule = Targeted!SoOfClasses(w)
<1>1. got["classes"].data = w.classes
  BY DEF Targeted!Record, Targeted!Evidence, Targeted!Listed
<1>2. QED
  BY <1>1 DEF Targeted!StorageClassRule, Targeted!SoOfClasses

LEMMA PoliciesSay ==
  ASSUME NEW w \in Targeted!World,
         Targeted!HasData("policies"), got["policies"] = Targeted!Record(w)["policies"]
  PROVE  Targeted!NetworkPolicyRule = Targeted!SoOfPolicies(w)
<1>1. got["policies"].data =
        {p.name : p \in {q \in w.policies : Targeted!DeniesAllIngress(q)}}
  BY DEF Targeted!Record, Targeted!Evidence, Targeted!Listed
<1>2. QED
  BY <1>1 DEF Targeted!NetworkPolicyRule, Targeted!SoOfPolicies

LEMMA DnsSays ==
  ASSUME NEW w \in Targeted!World,
         Targeted!HasData("dns"), got["dns"] = Targeted!Record(w)["dns"]
  PROVE  /\ Targeted!DnsWorkloadRule \subseteq Targeted!SoOfDns(w)
         /\ {} \notin w.dns => Targeted!SoOfDns(w) \subseteq Targeted!DnsWorkloadRule
<1>1. got["dns"].data = Targeted!DnsPods(w)
  BY DEF Targeted!Record, Targeted!Evidence
<1>2. /\ got["dns"].data.pods = (w.dns # {})
      /\ got["dns"].data.ready = (\E p \in w.dns : FALSE \notin p)
  BY <1>1 DEF Targeted!DnsPods
<1>3. QED
  BY <1>2 DEF Targeted!DnsWorkloadRule, Targeted!SoOfDns, Targeted!SaidIf

LEMMA Parts ==
  ASSUME NEW w
  PROVE  /\ Targeted!SoOfSpec(w) \subseteq Targeted!So(w)
         /\ Targeted!SoOfReferences(w) \subseteq Targeted!So(w)
         /\ Targeted!SoOfEvents(w) \subseteq Targeted!So(w)
         /\ Targeted!SoOfQuotas(w) \subseteq Targeted!So(w)
         /\ Targeted!SoOfClasses(w) \subseteq Targeted!So(w)
         /\ Targeted!SoOfPolicies(w) \subseteq Targeted!So(w)
         /\ Targeted!SoOfDns(w) \subseteq Targeted!So(w)
BY DEF Targeted!So

LEMMA Typed ==
  ASSUME NEW w, NEW s
  PROVE  /\ s \in Targeted!SoOfSpec(w) =>
              s.type \in {"container.oom_exit_code", "container.killed",
                         "container.nonzero_exit_code", "container.no_memory_limit",
                         "probe.aggressive"}
         /\ s \in Targeted!SoOfReferences(w) =>
              s.type \in {"config.reference_missing", "config.key_missing"}
         /\ s \in Targeted!SoOfEvents(w) => s.type \in Targeted!OfEvents
         /\ s \in Targeted!SoOfQuotas(w) => s.type = "quota.exceeded"
         /\ s \in Targeted!SoOfClasses(w) =>
              s.type \in {"storage.no_default_class", "storage.wait_for_consumer"}
         /\ s \in Targeted!SoOfPolicies(w) => s.type = "network.policy_denies_all"
         /\ s \in Targeted!SoOfDns(w) => s.type = "dns.workload_unhealthy"
         /\ s \in Targeted!So(w) => s.type # "image.no_pull_secret"
<1>1. s \in Targeted!SoOfSpec(w) =>
        s.type \in {"container.oom_exit_code", "container.killed", "container.nonzero_exit_code",
                   "container.no_memory_limit", "probe.aggressive"}
  BY DEF Targeted!SoOfSpec, Targeted!SaidIf, Targeted!Said
<1>2. s \in Targeted!SoOfReferences(w) =>
        s.type \in {"config.reference_missing", "config.key_missing"}
  BY DEF Targeted!SoOfReferences, Targeted!Said
<1>3. s \in Targeted!SoOfEvents(w) => s.type \in Targeted!OfEvents
  BY DEF Targeted!SoOfEvents, Targeted!SaidIf, Targeted!Said, Targeted!OfEvents
<1>4. s \in Targeted!SoOfQuotas(w) => s.type = "quota.exceeded"
  BY DEF Targeted!SoOfQuotas, Targeted!SaidIf, Targeted!Said
<1>5. s \in Targeted!SoOfClasses(w) =>
        s.type \in {"storage.no_default_class", "storage.wait_for_consumer"}
  BY DEF Targeted!SoOfClasses, Targeted!SaidIf, Targeted!Said
<1>6. s \in Targeted!SoOfPolicies(w) => s.type = "network.policy_denies_all"
  BY DEF Targeted!SoOfPolicies, Targeted!Said
<1>7. s \in Targeted!SoOfDns(w) => s.type = "dns.workload_unhealthy"
  <2>1. s \in Targeted!SoOfDns(w) => s = Targeted!Said("dns.workload_unhealthy", None)
    BY Zenon DEF Targeted!SoOfDns, Targeted!SaidIf
  <2>2. QED
    BY <2>1 DEF Targeted!Said
<1>8. s \in Targeted!So(w) => s.type # "image.no_pull_secret"
  <2>1. "image.no_pull_secret" \notin Targeted!OfEvents
    BY DEF Targeted!OfEvents
  <2>2. QED
    BY <1>1, <1>2, <1>3, <1>4, <1>5, <1>6, <1>7, <2>1 DEF Targeted!So
<1>9. QED
  BY <1>1, <1>2, <1>3, <1>4, <1>5, <1>6, <1>7, <1>8

(* By what it rests on, a signal is of one part of what is so.             *)
LEMMA Sources ==
  ASSUME NEW w, NEW s \in Targeted!So(w)
  PROVE  \/ Targeted!Source(s) = "spec" /\ s \in Targeted!SoOfSpec(w)
         \/ Targeted!Source(s) = "references" /\ s \in Targeted!SoOfReferences(w)
         \/ Targeted!Source(s) = "events" /\ s \in Targeted!SoOfEvents(w)
         \/ Targeted!Source(s) = "quotas" /\ s \in Targeted!SoOfQuotas(w)
         \/ Targeted!Source(s) = "classes" /\ s \in Targeted!SoOfClasses(w)
         \/ Targeted!Source(s) = "policies" /\ s \in Targeted!SoOfPolicies(w)
         \/ Targeted!Source(s) = "dns" /\ s \in Targeted!SoOfDns(w)
<1>8. CASE s \in Targeted!SoOfSpec(w)
  <2>1. /\ s.type \notin Targeted!OfEvents
        /\ s.type \notin {"config.reference_missing", "config.key_missing"}
        /\ s.type # "quota.exceeded"
        /\ s.type \notin {"storage.no_default_class", "storage.wait_for_consumer"}
        /\ s.type # "network.policy_denies_all" /\ s.type # "dns.workload_unhealthy"
    BY Typed, <1>8 DEF Targeted!OfEvents
  <2>2. QED
    BY <1>8, <2>1 DEF Targeted!Source
<1>9. CASE s \in Targeted!SoOfReferences(w)
  <2>1. s.type \notin Targeted!OfEvents
    BY Typed, <1>9 DEF Targeted!OfEvents
  <2>2. QED
    BY Typed, <1>9, <2>1 DEF Targeted!Source
<1>10. CASE s \in Targeted!SoOfEvents(w)
  <2>1. s.type \in Targeted!OfEvents
    BY Typed, <1>10
  <2>2. /\ s.type \notin {"config.reference_missing", "config.key_missing"}
        /\ s.type # "quota.exceeded"
        /\ s.type \notin {"storage.no_default_class", "storage.wait_for_consumer"}
        /\ s.type # "network.policy_denies_all" /\ s.type # "dns.workload_unhealthy"
    BY <2>1 DEF Targeted!OfEvents
  <2>3. QED
    BY <1>10, <2>1, <2>2 DEF Targeted!Source
<1>11. CASE s \in Targeted!SoOfQuotas(w)
  <2>1. s.type \notin Targeted!OfEvents
    BY Typed, <1>11 DEF Targeted!OfEvents
  <2>2. QED
    BY Typed, <1>11, <2>1 DEF Targeted!Source
<1>12. CASE s \in Targeted!SoOfClasses(w)
  <2>1. s.type \notin Targeted!OfEvents
    BY Typed, <1>12 DEF Targeted!OfEvents
  <2>2. QED
    BY Typed, <1>12, <2>1 DEF Targeted!Source
<1>13. CASE s \in Targeted!SoOfPolicies(w)
  <2>1. s.type \notin Targeted!OfEvents
    BY Typed, <1>13 DEF Targeted!OfEvents
  <2>2. QED
    BY Typed, <1>13, <2>1 DEF Targeted!Source
<1>14. CASE s \in Targeted!SoOfDns(w)
  <2>1. s.type \notin Targeted!OfEvents
    BY Typed, <1>14 DEF Targeted!OfEvents
  <2>2. QED
    BY Typed, <1>14, <2>1 DEF Targeted!Source
<1>15. QED
  BY <1>8, <1>9, <1>10, <1>11, <1>12, <1>13, <1>14 DEF Targeted!So

----------------------------------------------------------------------------
(* The references: what the spec says at one moment, of objects looked up  *)
(* at others.                                                              *)

LEMMA ReferencesRead ==
  ASSUME Recorded, Targeted!HasData("references")
  PROVE  /\ DOMAIN got["references"].data = Targeted!Wanted
         /\ \A k \in Targeted!Wanted :
              /\ k \in Targeted!Referable
              /\ got["references"].data[k].exists = got[k].exists
              /\ got["references"].data[k].missing = Targeted!MissingKeys(k)
         /\ got["spec"].data.refs = actual.refs
<1>1. /\ got["references"].data = Targeted!References
      /\ got["spec"] # None /\ Targeted!Usable(got["spec"])
  BY DEF Recorded, Joined
<1>2. PICK w \in ever : got["spec"] = Targeted!Record(w)["spec"]
  <2>1. OfOne("spec")
    BY StringsDiffer DEF Recorded
  <2>2. got["spec"].status \notin Degraded
    BY <1>1, Assumed DEF Targeted!Usable, Targeted!DeepAssumption
  <2>3. QED
    BY <1>1, <2>1, <2>2 DEF OfOne
<1>3. got["spec"].data.refs = w.refs
  BY <1>2 DEF Targeted!Record, Targeted!Evidence, Targeted!PodSpec
<1>4. got["spec"].data.refs = actual.refs
  BY <1>3, MomentsAreWorlds
<1>5. QED
  BY <1>1, <1>4 DEF Targeted!References, Targeted!Wanted

(* What is known of an object is of a moment, and its pod referred to it.  *)
LEMMA ObjectRead ==
  ASSUME Recorded, Targeted!HasData("references"), NEW k \in Targeted!Wanted,
         got[k].exists # "unread"
  PROVE  \E w \in ever : /\ got[k] = Targeted!Resolve(w, k)
                          /\ w.refs = got["spec"].data.refs
<1>1. got[k] # None /\ Found(k)
  BY ReferencesRead DEF Recorded, Joined
<1>2. got[k] # Targeted!Unknown
  BY DEF Targeted!Unknown, Targeted!Resolution
<1>3. QED
  BY <1>1, <1>2, ReferencesRead, MomentsAreWorlds DEF Found

LEMMA Resolving ==
  ASSUME NEW w, NEW k
  PROVE  LET found == Targeted!Resolve(w, k)
         IN /\ found.exists # "unread"
            /\ found.exists = "no" <=> w.objects[k] = None
            /\ found.exists = "yes" <=> w.objects[k] # None
            /\ w.objects[k] # None => found.keys = w.objects[k]
            /\ w.objects[k] = None => found.keys = {}
BY DEF Targeted!Resolve, Targeted!Resolution

LEMMA ReferencesSayWhatWas ==
  ASSUME Recorded, NEW s \in Targeted!ConfigReferenceRule
  PROVE  \E w \in ever : s \in Targeted!SoOfReferences(w)
<1> DEFINE found == got["references"].data
           refs == got["spec"].data.refs
<1>1. Targeted!HasData("references")
  BY DEF Targeted!ConfigReferenceRule
<1>2. PICK k \in DOMAIN found :
        \/ found[k].exists = "no" /\ s = Targeted!Said("config.reference_missing", <<k, None>>)
        \/ /\ found[k].exists = "yes"
           /\ \E key \in found[k].missing : s = Targeted!Said("config.key_missing", <<k, key>>)
  BY DEF Targeted!ConfigReferenceRule
<1>3. /\ k \in Targeted!Wanted /\ found[k].exists = got[k].exists
      /\ found[k].missing = Targeted!MissingKeys(k)
  BY <1>1, ReferencesRead
<1>4. PICK w \in ever : got[k] = Targeted!Resolve(w, k) /\ w.refs = refs
  BY <1>1, <1>2, <1>3, ObjectRead
<1>5. CASE found[k].exists = "no" /\ s = Targeted!Said("config.reference_missing", <<k, None>>)
  <2>1. PICK r \in w.refs : r.kind = k
    BY <1>3, <1>4 DEF Targeted!Wanted
  <2>2. w.objects[k] = None
    BY <1>3, <1>4, <1>5, Resolving
  <2>3. QED
    BY <1>5, <2>1, <2>2 DEF Targeted!SoOfReferences
<1>6. ASSUME found[k].exists = "yes", NEW key \in found[k].missing,
             s = Targeted!Said("config.key_missing", <<k, key>>)
      PROVE  \E v \in ever : s \in Targeted!SoOfReferences(v)
  <2>1. PICK r \in w.refs : r.kind = k /\ r.key = key /\ key # None /\ key \notin got[k].keys
    BY <1>3, <1>4, <1>6 DEF Targeted!MissingKeys
  <2>2. w.objects[k] # None /\ got[k].keys = w.objects[k]
    BY <1>3, <1>4, <1>6, Resolving
  <2>3. QED
    BY <1>6, <2>1, <2>2 DEF Targeted!SoOfReferences
<1>7. QED
  BY <1>2, <1>5, <1>6

LEMMA ReferencesSayWhatStays ==
  ASSUME Recorded, NEW s \in Targeted!SoOfReferences(actual), Targeted!HasData("references"),
         got[s.of[1]].exists # "unread",
         \A w \in ever : s \in Targeted!So(w) /\ ~Targeted!Unseen(w, s)
  PROVE  s \in Targeted!ConfigReferenceRule
<1> DEFINE found == got["references"].data
           refs == got["spec"].data.refs
           k == s.of[1]
<1>1. refs = actual.refs /\ actual \in Targeted!World
  BY ReferencesRead, MomentsAreWorlds
<1>2. PICK q \in refs : q.kind = k
  BY <1>1 DEF Targeted!SoOfReferences, Targeted!Said
<1>3. k \in Targeted!Wanted
  BY <1>1, <1>2 DEF Targeted!Wanted, Targeted!World, Targeted!Reference
<1>4. /\ k \in DOMAIN found /\ found[k].exists = got[k].exists
      /\ found[k].missing = Targeted!MissingKeys(k)
  BY <1>3, ReferencesRead
<1>5. PICK w \in ever : got[k] = Targeted!Resolve(w, k) /\ w.refs = refs
  BY <1>3, ObjectRead
<1>6. s \in Targeted!SoOfReferences(w)
  <2>1. s \in Targeted!So(w) /\ s \in Targeted!So(actual)
    BY Parts
  <2>2. s.type \in {"config.reference_missing", "config.key_missing"}
    BY DEF Targeted!SoOfReferences, Targeted!Said
  <2>3. Targeted!Source(s) = "references"
    BY <2>2 DEF Targeted!Source, Targeted!OfEvents
  <2>4. QED
    BY <2>1, <2>3, Sources
<1>7. CASE \E r \in w.refs : /\ s = Targeted!Said("config.reference_missing", <<r.kind, None>>)
                              /\ w.objects[r.kind] = None
  <2>1. s = Targeted!Said("config.reference_missing", <<k, None>>) /\ w.objects[k] = None
    BY <1>7 DEF Targeted!Said
  <2>2. found[k].exists = "no"
    BY <1>4, <1>5, <2>1, Resolving
  <2>3. QED
    BY <1>4, <2>1, <2>2 DEF Targeted!ConfigReferenceRule
<1>8. CASE \E r \in w.refs : /\ s = Targeted!Said("config.key_missing", <<r.kind, r.key>>)
                              /\ r.key # None /\ w.objects[r.kind] # None
                              /\ r.key \notin w.objects[r.kind]
  <2>1. PICK r \in w.refs : /\ s = Targeted!Said("config.key_missing", <<r.kind, r.key>>)
                            /\ r.key # None /\ w.objects[r.kind] # None
                            /\ r.key \notin w.objects[r.kind]
    BY <1>8
  <2>2. r.kind = k /\ s.type = "config.key_missing"
    BY <2>1 DEF Targeted!Said
  <2>3. w.objects[k] # {}
    BY <2>2 DEF Targeted!Unseen
  <2>4. found[k].exists = "yes" /\ got[k].keys = w.objects[k]
    <3>1. w.objects[k] # None
      BY <2>1, <2>2
    <3>2. QED
      BY <1>4, <1>5, <3>1, Resolving
  <2>5. r.key \in found[k].missing
    BY <1>4, <1>5, <2>1, <2>2, <2>3, <2>4 DEF Targeted!MissingKeys
  <2>6. s \in {Targeted!Said("config.key_missing", <<k, key>>) : key \in found[k].missing}
    BY <2>1, <2>2, <2>5
  <2>7. QED
    BY <1>4, <2>4, <2>6 DEF Targeted!ConfigReferenceRule
<1>9. QED
  BY <1>6, <1>7, <1>8 DEF Targeted!SoOfReferences

----------------------------------------------------------------------------
(* The properties.                                                         *)

LEMMA SaidWas == Recorded => Targeted!SaysWhatWas
<1>1. SUFFICES ASSUME Recorded, NEW s \in Targeted!DEEP_SIGNAL_RULES
               PROVE  IF s.type = "image.no_pull_secret"
                      THEN /\ \E w \in ever : w.pulling /\ ~w.secrets
                           /\ Targeted!HasData("account") => \E w \in ever : "default" \notin w.supplies
                      ELSE \E w \in ever : s \in Targeted!So(w)
  BY DEF Targeted!SaysWhatWas
<1>2. \A c \in {"spec", "events", "quotas", "classes", "policies", "dns", "account"} :
        Targeted!HasData(c) =>
          \E w \in ever : w \in Targeted!World /\ got[c] = Targeted!Record(w)[c]
  <2>1. {"spec", "events", "quotas", "classes", "policies", "dns", "account"}
          \subseteq Targeted!Collectors \ {"references", "previous"}
    BY DEF Targeted!Collectors, Targeted!Plans
  <2>2. QED
    BY <1>1, <2>1, RecordedOf, MomentsAreWorlds
<1>3. CASE s \in Targeted!ImagePullSecretRule
  <2>1. /\ Targeted!HasData("spec") /\ ~got["spec"].data.image_pull_secrets
        /\ got["spec"].data.current \in Targeted!PULL_FAILURE_REASONS
        /\ ~(Targeted!HasData("account") /\ got["account"].data)
        /\ s.type = "image.no_pull_secret"
    BY <1>3 DEF Targeted!ImagePullSecretRule, Targeted!SaidIf, Targeted!Said
  <2>2. PICK w \in ever : w \in Targeted!World /\ got["spec"] = Targeted!Record(w)["spec"]
    BY <1>2, <2>1
  <2>3. /\ got["spec"].data.image_pull_secrets = w.secrets
        /\ got["spec"].data.current = Targeted!Current(w)
    BY <2>2 DEF Targeted!Record, Targeted!Evidence, Targeted!PodSpec
  <2>4. w.pulling /\ ~w.secrets
    BY <2>1, <2>3 DEF Targeted!Current, Targeted!PULL_FAILURE_REASONS
  <2>5. ASSUME Targeted!HasData("account") PROVE \E v \in ever : "default" \notin v.supplies
    <3>1. PICK v \in ever : got["account"] = Targeted!Record(v)["account"]
      BY <1>2, <2>5
    <3>2. got["account"].data = Targeted!DefaultAccount(v)
      BY <3>1 DEF Targeted!Record, Targeted!Evidence
    <3>3. QED
      BY <2>1, <2>5, <3>2 DEF Targeted!DefaultAccount
  <2>6. QED
    BY <2>1, <2>4, <2>5
<1>4. ASSUME \E w \in ever : s \in Targeted!So(w)
      PROVE  s.type # "image.no_pull_secret"
  <2>1. PICK w \in ever : s \in Targeted!So(w)
    BY <1>4
  <2>2. QED
    BY <2>1, Typed
<1>5. SUFFICES ASSUME s \notin Targeted!ImagePullSecretRule
               PROVE  \E w \in ever : s \in Targeted!So(w)
  BY <1>3, <1>4
<1>6. CASE s \in Targeted!ContainerTerminationRule \cup Targeted!ProbeConfigurationRule
  <2>1. Targeted!HasData("spec")
    BY <1>6 DEF Targeted!ContainerTerminationRule, Targeted!ProbeConfigurationRule, Targeted!SaidIf
  <2>2. QED
    BY <1>2, <1>6, <2>1, SpecSays, Parts
<1>7. CASE s \in Targeted!ConfigReferenceRule
  BY <1>1, <1>7, ReferencesSayWhatWas, Parts
<1>8. CASE s \in Targeted!SchedulingEventRule \cup Targeted!ImagePullEventRule
  <2>1. Targeted!HasData("events")
    <3>1. Targeted!Heard # {}
      BY <1>8 DEF Targeted!SchedulingEventRule, Targeted!ImagePullEventRule, Targeted!SaidIf
    <3>2. QED
      BY <3>1 DEF Targeted!Heard
  <2>2. QED
    BY <1>2, <1>8, <2>1, EventsSay, Parts
<1>9. CASE s \in Targeted!QuotaRule
  <2>1. Targeted!HasData("quotas")
    BY <1>9 DEF Targeted!QuotaRule, Targeted!SaidIf
  <2>2. QED
    BY <1>2, <1>9, <2>1, QuotasSay, Parts
<1>10. CASE s \in Targeted!StorageClassRule
  <2>1. Targeted!HasData("classes")
    BY <1>10 DEF Targeted!StorageClassRule
  <2>2. QED
    BY <1>2, <1>10, <2>1, ClassesSay, Parts
<1>11. CASE s \in Targeted!NetworkPolicyRule
  <2>1. Targeted!HasData("policies")
    BY <1>11 DEF Targeted!NetworkPolicyRule
  <2>2. QED
    BY <1>2, <1>11, <2>1, PoliciesSay, Parts
<1>12. CASE s \in Targeted!DnsWorkloadRule
  <2>1. Targeted!HasData("dns")
    BY <1>12 DEF Targeted!DnsWorkloadRule, Targeted!SaidIf
  <2>2. QED
    BY <1>2, <1>12, <2>1, DnsSays, Parts
<1>13. QED
  BY <1>1, <1>5, <1>6, <1>7, <1>8, <1>9, <1>10, <1>11, <1>12 DEF Targeted!DEEP_SIGNAL_RULES

LEMMA StaysSaid == Recorded => Targeted!SaysWhatStays
<1>1. SUFFICES ASSUME Recorded, NEW s \in Targeted!So(actual),
                      \A w \in ever : s \in Targeted!So(w) /\ ~Targeted!Unseen(w, s),
                      Targeted!Answered(s)
               PROVE  s \in Targeted!DEEP_SIGNAL_RULES
  BY DEF Targeted!SaysWhatStays
<1>2. ASSUME NEW c \in {"spec", "events", "quotas", "classes", "policies", "dns"},
             Targeted!Source(s) = c
      PROVE  \E w \in ever : /\ w \in Targeted!World /\ got[c] = Targeted!Record(w)[c]
                              /\ s \in Targeted!So(w) /\ ~Targeted!Unseen(w, s)
                              /\ Targeted!HasData(c)
  <2>1. c \in Targeted!Collectors \ {"references", "previous"}
    BY DEF Targeted!Collectors, Targeted!Plans
  <2>2. QED
    BY <1>1, <1>2, <2>1, RecordedOf, MomentsAreWorlds DEF Targeted!Answered
<1>3. CASE Targeted!Source(s) = "spec"
  <2>1. PICK w \in ever : /\ w \in Targeted!World /\ got["spec"] = Targeted!Record(w)["spec"]
                          /\ s \in Targeted!So(w) /\ Targeted!HasData("spec")
    BY <1>2, <1>3
  <2>2. s \in Targeted!SoOfSpec(w)
    BY <1>3, <2>1, Sources
  <2>3. QED
    BY <2>1, <2>2, SpecSays DEF Targeted!DEEP_SIGNAL_RULES
<1>4. CASE Targeted!Source(s) = "references"
  <2>1. s \in Targeted!SoOfReferences(actual)
    BY <1>1, <1>4, Sources
  <2>2. Targeted!HasData("references") /\ got[s.of[1]].exists # "unread"
    BY <1>1, <1>4 DEF Targeted!Answered
  <2>3. QED
    BY <1>1, <2>1, <2>2, ReferencesSayWhatStays DEF Targeted!DEEP_SIGNAL_RULES
<1>5. CASE Targeted!Source(s) = "events"
  <2>1. PICK w \in ever : /\ w \in Targeted!World /\ got["events"] = Targeted!Record(w)["events"]
                          /\ s \in Targeted!So(w) /\ ~Targeted!Unseen(w, s)
                          /\ Targeted!HasData("events")
    BY <1>2, <1>5
  <2>2. s \in Targeted!SoOfEvents(w) /\ s.type \in Targeted!OfEvents
    BY <1>5, <2>1, Sources, Typed
  <2>3. ~(Len(w.events) > MaxEvents)
    BY <2>1, <2>2 DEF Targeted!Unseen
  <2>4. QED
    BY <2>1, <2>2, <2>3, EventsSay DEF Targeted!DEEP_SIGNAL_RULES
<1>6. CASE Targeted!Source(s) = "quotas"
  <2>1. PICK w \in ever : /\ w \in Targeted!World /\ got["quotas"] = Targeted!Record(w)["quotas"]
                          /\ s \in Targeted!So(w) /\ ~Targeted!Unseen(w, s)
                          /\ Targeted!HasData("quotas")
    BY <1>2, <1>6
  <2>2. s \in Targeted!SoOfQuotas(w) /\ s.type = "quota.exceeded"
    BY <1>6, <2>1, Sources, Typed
  <2>3. \A q \in w.quotas : "P" \notin {q.hard.unit, q.used.unit}
    BY <2>1, <2>2 DEF Targeted!Unseen
  <2>4. QED
    BY <2>1, <2>2, <2>3, QuotasSay DEF Targeted!DEEP_SIGNAL_RULES
<1>7. CASE Targeted!Source(s) = "classes"
  <2>1. PICK w \in ever : /\ w \in Targeted!World /\ got["classes"] = Targeted!Record(w)["classes"]
                          /\ s \in Targeted!So(w) /\ Targeted!HasData("classes")
    BY <1>2, <1>7
  <2>2. s \in Targeted!SoOfClasses(w)
    BY <1>7, <2>1, Sources
  <2>3. QED
    BY <2>1, <2>2, ClassesSay DEF Targeted!DEEP_SIGNAL_RULES
<1>8. CASE Targeted!Source(s) = "policies"
  <2>1. PICK w \in ever : /\ w \in Targeted!World /\ got["policies"] = Targeted!Record(w)["policies"]
                          /\ s \in Targeted!So(w) /\ Targeted!HasData("policies")
    BY <1>2, <1>8
  <2>2. s \in Targeted!SoOfPolicies(w)
    BY <1>8, <2>1, Sources
  <2>3. QED
    BY <2>1, <2>2, PoliciesSay DEF Targeted!DEEP_SIGNAL_RULES
<1>9. CASE Targeted!Source(s) = "dns"
  <2>1. PICK w \in ever : /\ w \in Targeted!World /\ got["dns"] = Targeted!Record(w)["dns"]
                          /\ s \in Targeted!So(w) /\ ~Targeted!Unseen(w, s)
                          /\ Targeted!HasData("dns")
    BY <1>2, <1>9
  <2>2. s \in Targeted!SoOfDns(w) /\ s.type = "dns.workload_unhealthy"
    BY <1>9, <2>1, Sources, Typed
  <2>3. {} \notin w.dns
    BY <2>1, <2>2 DEF Targeted!Unseen
  <2>4. QED
    BY <2>1, <2>2, <2>3, DnsSays DEF Targeted!DEEP_SIGNAL_RULES
<1>10. QED
  BY <1>1, <1>3, <1>4, <1>5, <1>6, <1>7, <1>8, <1>9, Sources

(* Whatever fails, and however the cluster changes between the reads:      *)
(* what is said of a failing pod was so while it was investigated, as far  *)
(* as SaysWhatWas goes, and what stayed so, was read and can be seen is    *)
(* said.                                                                   *)
THEOREM DeepReadsAreTrue == MCSpec => []DeepReadsHold
<1>1. MCInit => Recorded
  BY RecordedStart
<1>2. Recorded /\ [MCNext]_MCvars => Recorded'
  BY RecordedKept
<1>3. Recorded => DeepReadsHold
  BY SaidWas, StaysSaid DEF DeepReadsHold
<1>4. QED
  BY <1>1, <1>2, <1>3, PTL DEF MCSpec

----------------------------------------------------------------------------
(* What a pod's state says.                                                *)

(* A set of natural numbers has a least one.                               *)
LEMMA Least ==
  ASSUME NEW S, S \subseteq Nat, S # {}
  PROVE  \E x \in S : \A y \in S : x <= y
<1> DEFINE R == OpToRel(<, Nat)
<1>1. PICK x \in S : \A y \in S : ~(<<y, x>> \in R)
  <2>1. IsWellFoundedOn(R, Nat)
    BY NatLessThanWellFounded
  <2> HIDE DEF R
  <2>2. QED
    BY <2>1, WFMin
<1>2. \A y \in S : x <= y
  <2>1. \A y \in S : ~(y < x)
    BY <1>1 DEF OpToRel
  <2>2. QED
    BY <2>1
<1>3. QED
  BY <1>2

(* The reason that explains most is one of those there are.                *)
LEMMA ForemostIsOne ==
  ASSUME NEW S, S \subseteq Pod!CONTAINER_PROBLEM_REASONS, S # {}
  PROVE  Pod!Foremost(S) \in S
<1> DEFINE rank == Pod!REASON_PRECEDENCE
           I == {i \in DOMAIN rank : rank[i] \in S}
<1>1. DOMAIN rank \subseteq Nat
  BY DEF Pod!REASON_PRECEDENCE
<1>2. Pod!CONTAINER_PROBLEM_REASONS = {rank[i] : i \in DOMAIN rank}
  BY DEF Pod!CONTAINER_PROBLEM_REASONS, Pod!ToSet
<1>3. Pod!Foremost(S) = rank[Pod!Min(I)]
  BY DEF Pod!Foremost
<1> HIDE DEF rank
<1>4. I # {} /\ I \subseteq Nat
  BY <1>1, <1>2
<1>5. Pod!Min(I) \in I
  <2>1. \E x \in I : \A y \in I : x =< y
    BY <1>4, Least
  <2>2. QED
    BY <2>1 DEF Pod!Min
<1>6. QED
  BY <1>3, <1>5

(* What is said of a pod.                                                  *)
Candidates(p) ==
  (UNION {Pod!Current(container[p][c]) : c \in Containers})
    \cup UNION {Pod!History(container[p][c]) : c \in Containers}

LEMMA Detected ==
  ASSUME NEW p
  PROVE  Pod!Detect(p).status =
           IF p \in removed THEN "Evicted"
           ELSE IF Candidates(p) # {} THEN Pod!Foremost(Candidates(p))
           ELSE IF Pod!Phase(p) \in {"Pending", "Failed"} THEN Pod!Phase(p)
           ELSE IF ~Pod!Ready(p) THEN "NotReady" ELSE "healthy"
<1> DEFINE status(s) == [status |-> s, now |-> TRUE]
           now == UNION {Pod!Current(container[p][c]) : c \in Containers}
           reason == Pod!Foremost(Candidates(p))
<1>1. Pod!Detect(p) =
          IF p \in removed THEN status("Evicted")
          ELSE IF Candidates(p) # {} THEN [status |-> reason, now |-> reason \in now]
          ELSE IF Pod!Phase(p) \in {"Pending", "Failed"} THEN status(Pod!Phase(p))
          ELSE IF ~Pod!Ready(p) THEN status("NotReady") ELSE status("healthy")
  BY Zenon DEF Pod!Detect, Candidates
<1>2. QED
  BY <1>1

LEMMA CandidatesExplain ==
  ASSUME NEW p
  PROVE  Candidates(p) \subseteq Pod!CONTAINER_PROBLEM_REASONS
<1>1. \A k : /\ Pod!Current(k) \subseteq Pod!CONTAINER_PROBLEM_REASONS
              /\ Pod!History(k) \subseteq Pod!CONTAINER_PROBLEM_REASONS
  BY DEF Pod!Current, Pod!History
<1>2. SUFFICES ASSUME NEW r \in Candidates(p) PROVE r \in Pod!CONTAINER_PROBLEM_REASONS
  OBVIOUS
<1>3. PICK c \in Containers :
        r \in Pod!Current(container[p][c]) \/ r \in Pod!History(container[p][c])
  BY DEF Candidates
<1>4. QED
  BY <1>1, <1>3

(* A pod that does not serve has a status.                                 *)
LEMMA BrokenShows == Pod!BrokenIsVisible
<1>1. SUFFICES ASSUME NEW p \in PodNames, ~Pod!Ready(p)
               PROVE  Pod!Detect(p).status # "healthy"
  BY DEF Pod!BrokenIsVisible
<1>2. "healthy" \notin Pod!CONTAINER_PROBLEM_REASONS
  BY DEF Pod!CONTAINER_PROBLEM_REASONS, Pod!ToSet, Pod!REASON_PRECEDENCE
<1>3. Candidates(p) # {} => Pod!Foremost(Candidates(p)) # "healthy"
  BY <1>2, ForemostIsOne, CandidatesExplain
<1>4. QED
  BY <1>1, <1>3, Detected

(* What a container says, if it is stable and if it is not.                *)
Says(k, stable) ==
  Pod!Current(k) \cup
    IF stable THEN {}
    ELSE ({k.last} \cup Pod!RestartCandidate(k)) \cap Pod!CONTAINER_PROBLEM_REASONS

SaidOf(p) ==
  /\ Candidates(p) =
       UNION {Says(container[p][c], Pod!Stable(container[p][c])) : c \in Containers}
  /\ Pod!Detect(p).status =
       IF p \in removed THEN "Evicted"
       ELSE IF Candidates(p) # {} THEN Pod!Foremost(Candidates(p))
       ELSE IF Pod!Phase(p) \in {"Pending", "Failed"} THEN Pod!Phase(p)
       ELSE IF ~Pod!Ready(p) THEN "NotReady" ELSE "healthy"
SaidOfAll == \A p \in PodNames : SaidOf(p)

LEMMA SaidNow == SaidOfAll
<1>1. SUFFICES ASSUME NEW p \in PodNames PROVE SaidOf(p)
  BY DEF SaidOfAll
<1>2. \A k : Says(k, Pod!Stable(k)) = Pod!Current(k) \cup Pod!History(k)
  BY DEF Says, Pod!History
<1>3. Candidates(p) =
        UNION {Says(container[p][c], Pod!Stable(container[p][c])) : c \in Containers}
  <2>1. UNION {Says(container[p][c], Pod!Stable(container[p][c])) : c \in Containers}
          = UNION {Pod!Current(container[p][c]) \cup Pod!History(container[p][c]) : c \in Containers}
    BY <1>2
  <2>2. QED
    BY <2>1 DEF Candidates
<1>4. QED
  BY <1>3, Detected DEF SaidOf

LEMMA SaidNext == SaidOfAll'
BY SaidNow, PTL

(* While it goes round it says one thing, and once it is stable nothing.   *)
LEMMA LoopSaysTheSame ==
  ASSUME NEW k, Pod!Loops(k)
  PROVE  Says(k, FALSE) = {k.last, "CrashLoopBackOff"}
<1>1. /\ k.last \in {"Error", "OOMKilled"} /\ k.last # None
      /\ k.state \in {"running", "CrashLoopBackOff", k.last}
      /\ k.restarts >= Pod!RESTART_THRESHOLD
  BY DiagnosisAssumption DEF Pod!Loops, Pod!Failures, Pod!PodAssumption, Pod!Terminated
<1>2. {"Error", "OOMKilled", "CrashLoopBackOff"} \subseteq Pod!CONTAINER_PROBLEM_REASONS
  BY DEF Pod!CONTAINER_PROBLEM_REASONS, Pod!ToSet, Pod!REASON_PRECEDENCE
<1>3. "running" \notin Pod!CONTAINER_PROBLEM_REASONS
  BY DEF Pod!CONTAINER_PROBLEM_REASONS, Pod!ToSet, Pod!REASON_PRECEDENCE
<1>4. Pod!RestartCandidate(k) = {"CrashLoopBackOff"}
  BY <1>1 DEF Pod!RestartCandidate, Pod!NOT_A_CRASH
<1>5. Pod!Current(k) \subseteq {k.last, "CrashLoopBackOff"}
  BY <1>1, <1>3 DEF Pod!Current
<1>6. QED
  BY <1>1, <1>2, <1>4, <1>5 DEF Says

LEMMA StableSaysNothing ==
  ASSUME NEW k, k.state = "running"
  PROVE  Says(k, TRUE) = {}
<1>1. "running" \notin Pod!CONTAINER_PROBLEM_REASONS
  BY DEF Pod!CONTAINER_PROBLEM_REASONS, Pod!ToSet, Pod!REASON_PRECEDENCE
<1>2. QED
  BY <1>1 DEF Says, Pod!Current

(* One container goes on with its round, and the others stay.              *)
Rounds(p, c) ==
  /\ Pod!Loops(container[p][c]) /\ Pod!Loops(container'[p][c])
  /\ container[p][c].last = container'[p][c].last
  /\ \A d \in Containers :
       /\ d # c => container'[p][d] = container[p][d]
       /\ Pod!Stable(container[p][d])' = Pod!Stable(container[p][d])

LEMMA RoundsAgree ==
  ASSUME NEW p \in PodNames, NEW c \in Containers, Rounds(p, c), removed' = removed
  PROVE  Pod!Detect(p).status' = Pod!Detect(p).status
<1> DEFINE stable(d) == Pod!Stable(container[p][d])
<1>1. /\ Candidates(p) = UNION {Says(container[p][d], stable(d)) : d \in Containers}
      /\ Candidates(p)' = UNION {Says(container'[p][d], stable(d)') : d \in Containers}
  BY SaidNow, SaidNext DEF SaidOfAll, SaidOf
<1>2. \A d \in Containers : stable(d)' = stable(d) /\ stable(d) \in BOOLEAN
  BY DEF Rounds, Pod!Stable
<1>3. stable(c) => /\ container[p][c].state = "running" /\ container[p][c].ready
                   /\ container'[p][c].state = "running" /\ container'[p][c].ready
  <2>1. stable(c) => container[p][c].state = "running" /\ container[p][c].ready
    BY DEF Pod!Stable
  <2>2. stable(c)' => container'[p][c].state = "running" /\ container'[p][c].ready
    BY DEF Pod!Stable
  <2>3. QED
    BY <1>2, <2>1, <2>2
<1> HIDE DEF stable
<1>4. Says(container'[p][c], stable(c)) = Says(container[p][c], stable(c))
  <2>1. CASE stable(c)
    BY <1>3, <2>1, StableSaysNothing
  <2>2. CASE ~stable(c)
    <3>1. stable(c) = FALSE
      BY <1>2, <2>2
    <3>2. QED
      BY <3>1, LoopSaysTheSame DEF Rounds
  <2>3. QED
    BY <2>1, <2>2
<1>5. Candidates(p)' = Candidates(p)
  <2>1. \A d \in Containers : Says(container'[p][d], stable(d)') = Says(container[p][d], stable(d))
    BY <1>2, <1>4 DEF Rounds
  <2>2. QED
    BY <1>1, <2>1
<1>6. Pod!Phase(p)' = Pod!Phase(p)
  <2>1. \A d \in Containers : Pod!Started(container'[p][d]) <=> Pod!Started(container[p][d])
    <3>1. container[p][c].last # None /\ container'[p][c].last # None
      BY DiagnosisAssumption DEF Rounds, Pod!Loops, Pod!Failures, Pod!PodAssumption, Pod!Terminated
    <3>2. QED
      BY <3>1 DEF Rounds, Pod!Started
  <2>2. QED
    BY <2>1 DEF Pod!Phase
<1>7. Candidates(p) = {} => Pod!Ready(p)' = Pod!Ready(p)
  <2>1. ASSUME Candidates(p) = {} PROVE stable(c)
    <3>1. ~stable(c) => "CrashLoopBackOff" \in Says(container[p][c], stable(c))
      <4>1. ~stable(c) => stable(c) = FALSE
        BY <1>2
      <4>2. QED
        BY <4>1, LoopSaysTheSame DEF Rounds
    <3>2. QED
      BY <1>1, <2>1, <3>1
  <2>2. ASSUME Candidates(p) = {}
        PROVE  \A d \in Containers : container'[p][d].ready <=> container[p][d].ready
    BY <1>3, <2>1, <2>2 DEF Rounds
  <2>3. QED
    BY <2>2 DEF Pod!Ready
<1>8. QED
  BY <1>5, <1>6, <1>7, SaidNow, SaidNext DEF SaidOfAll, SaidOf

----------------------------------------------------------------------------
(* The kubelet: a container that failed, or is said to have, is of a pod   *)
(* whose application did.                                                  *)

Failed(k) == k.state \in Pod!Failures \cup {"CrashLoopBackOff"} \/ k.last \in Pod!Failures

PodsKnown ==
  /\ Pod!TypeOK
  /\ \A p \in PodNames, c \in Containers : Failed(container[p][c]) => p \in crashed

LEMMA NoneIsNoFailure == None \notin Pod!Failures \cup {"Unknown", "CrashLoopBackOff"}
BY DiagnosisAssumption DEF Pod!PodAssumption, Pod!Terminated, Pod!Waiting

LEMMA Bounds == StableAfter \in Nat /\ MaxRestarts \in Nat /\ MaxClock \in Nat
BY DiagnosisAssumption DEF Pod!PodAssumption

LEMMA FreshIsContainer ==
  ASSUME NEW state \in {"none", "ContainerCreating"}
  PROVE  LET k == [Pod!Fresh EXCEPT !.state = state]
         IN k \in Pod!Container /\ ~Failed(k)
<1>1. Pod!Fresh \in Pod!Container /\ Pod!Fresh.last = None
  BY Bounds DEF Pod!Fresh, Pod!Container
<1>2. state \in {"none", "running"} \cup Pod!Waiting \cup Pod!Terminated
  BY DEF Pod!Waiting
<1>3. [Pod!Fresh EXCEPT !.state = state] \in Pod!Container
  BY <1>1, <1>2 DEF Pod!Container
<1>4. /\ [Pod!Fresh EXCEPT !.state = state].state = state
      /\ [Pod!Fresh EXCEPT !.state = state].last = None
  BY <1>1 DEF Pod!Container
<1>5. QED
  BY <1>3, <1>4, NoneIsNoFailure DEF Failed, Pod!Failures

LEMMA PodsStart == Pod!Init => PodsKnown
<1>1. SUFFICES ASSUME Pod!Init PROVE PodsKnown
  OBVIOUS
<1>2. Pod!Fresh \in Pod!Container /\ ~Failed(Pod!Fresh)
  BY Bounds, NoneIsNoFailure
     DEF Pod!Fresh, Pod!Container, Failed, Pod!Failures, Pod!Waiting, Pod!Terminated
<1>3. Pod!TypeOK
  BY <1>1, <1>2, Bounds DEF Pod!Init, Pod!TypeOK
<1>4. QED
  BY <1>1, <1>2, <1>3 DEF Pod!Init, PodsKnown

(* A pod's containers become others, at this moment.                       *)
LEMMA Becoming ==
  ASSUME PodsKnown, NEW p \in PodNames, NEW f \in [Containers -> Pod!Container],
         container' = [container EXCEPT ![p] = f],
         changed' = [changed EXCEPT ![p] = clock],
         UNCHANGED <<removed, clock>>,
         crashed \subseteq crashed', crashed' \subseteq PodNames,
         \A c \in Containers : Failed(f[c]) => p \in crashed'
  PROVE  PodsKnown'
<1>1. Pod!TypeOK
  BY DEF PodsKnown
<1>2. clock \in 0..clock
  BY <1>1, Bounds DEF Pod!TypeOK
<1>3. Pod!TypeOK'
  BY <1>1, <1>2 DEF Pod!TypeOK
<1>4. ASSUME NEW q \in PodNames, NEW c \in Containers, Failed(container'[q][c])
      PROVE  q \in crashed'
  BY <1>1, <1>4 DEF Pod!TypeOK, PodsKnown
<1>5. QED
  BY <1>3, <1>4 DEF PodsKnown, Failed

LEMMA Setting ==
  ASSUME PodsKnown, NEW p \in PodNames, NEW c \in Containers, NEW k \in Pod!Container,
         Pod!Set(p, c, k), crashed \subseteq crashed', crashed' \subseteq PodNames,
         Failed(k) => p \in crashed'
  PROVE  PodsKnown'
<1> DEFINE f == [container[p] EXCEPT ![c] = k]
<1>1. container[p] \in [Containers -> Pod!Container]
  BY DEF PodsKnown, Pod!TypeOK
<1>2. f \in [Containers -> Pod!Container]
  BY <1>1
<1>3. \A d \in Containers : Failed(f[d]) => p \in crashed'
  BY <1>1 DEF PodsKnown
<1>4. /\ container' = [container EXCEPT ![p] = f]
      /\ changed' = [changed EXCEPT ![p] = clock] /\ UNCHANGED <<removed, clock>>
  BY DEF Pod!Set
<1> HIDE DEF f
<1>5. QED
  BY <1>2, <1>3, <1>4, Becoming

LEMMA PodsKept == PodsKnown /\ [Pod!Next]_Pod!vars => PodsKnown'
<1>1. SUFFICES ASSUME PodsKnown, [Pod!Next]_Pod!vars PROVE PodsKnown'
  OBVIOUS
<1>2. /\ Pod!TypeOK /\ crashed \subseteq PodNames
      /\ \A p \in PodNames, c \in Containers :
           /\ container[p] \in [Containers -> Pod!Container]
           /\ container[p][c] \in Pod!Container
           /\ Failed(container[p][c]) => p \in crashed
      /\ clock \in Nat /\ clock <= MaxClock /\ clock \in 0..MaxClock
  BY <1>1, Bounds DEF PodsKnown, Pod!TypeOK
<1>3. CASE UNCHANGED Pod!vars
  BY <1>1, <1>3 DEF Pod!vars, PodsKnown, Pod!TypeOK, Failed
<1>4. ASSUME NEW p \in PodNames, Pod!Schedule(p) PROVE PodsKnown'
  <2> DEFINE f == [c \in Containers |-> [Pod!Fresh EXCEPT !.state = "ContainerCreating"]]
  <2>1. f \in [Containers -> Pod!Container] /\ \A c \in Containers : ~Failed(f[c])
    BY FreshIsContainer
  <2>2. /\ container' = [container EXCEPT ![p] = f]
        /\ changed' = [changed EXCEPT ![p] = clock] /\ UNCHANGED <<removed, clock, crashed>>
    BY <1>4 DEF Pod!Schedule
  <2> HIDE DEF f
  <2>3. QED
    BY <1>1, <1>2, <2>1, <2>2, Becoming
<1>5. ASSUME NEW p \in PodNames, Pod!Reboot(p) PROVE PodsKnown'
  <2> DEFINE k(c) == container[p][c]
             f == [c \in Containers |-> IF k(c).state = "running"
                     THEN [k(c) EXCEPT !.state = "Unknown", !.ready = FALSE] ELSE k(c)]
  <2>1. ASSUME NEW c \in Containers
        PROVE  f[c] \in Pod!Container /\ (Failed(f[c]) => p \in crashed)
    BY <1>2 DEF Pod!Container, Pod!Terminated, Pod!Failures, Failed
  <2>2. f \in [Containers -> Pod!Container]
    BY <2>1
  <2>3. /\ container' = [container EXCEPT ![p] = f]
        /\ changed' = [changed EXCEPT ![p] = clock] /\ UNCHANGED <<removed, clock, crashed>>
    BY <1>5 DEF Pod!Reboot
  <2> HIDE DEF f
  <2>4. QED
    BY <1>1, <1>2, <2>1, <2>2, <2>3, Becoming
<1>6. ASSUME NEW p \in PodNames, Pod!Evict(p) PROVE PodsKnown'
  <2>1. /\ UNCHANGED <<container, clock, crashed>> /\ removed' = removed \cup {p}
        /\ changed' = [changed EXCEPT ![p] = clock]
    BY <1>6 DEF Pod!Evict
  <2>2. Pod!TypeOK'
    BY <1>2, <2>1 DEF Pod!TypeOK
  <2>3. QED
    BY <1>2, <2>1, <2>2 DEF PodsKnown
<1>7. ASSUME NEW p \in PodNames, NEW c \in Containers, Pod!Stuck(p, c) PROVE PodsKnown'
  <2>1. PICK reason \in {"ImagePullBackOff", "CreateContainerConfigError"} :
          Pod!Set(p, c, [container[p][c] EXCEPT !.state = reason])
    BY <1>7 DEF Pod!Stuck
  <2> DEFINE k == [container[p][c] EXCEPT !.state = reason]
  <2>2. k \in Pod!Container /\ (Failed(k) => p \in crashed)
    BY <1>2 DEF Pod!Container, Pod!Waiting, Pod!Failures, Failed
  <2>3. crashed' = crashed
    BY <1>7 DEF Pod!Stuck
  <2> HIDE DEF k
  <2>4. Pod!Set(p, c, k)
    BY <2>1 DEF k
  <2>5. QED
    BY <1>1, <1>2, <2>2, <2>3, <2>4, Setting
<1>8. ASSUME NEW p \in PodNames, NEW c \in Containers, Pod!Start(p, c) PROVE PodsKnown'
  <2> DEFINE o == container[p][c]
             again == o.last # None \/ o.state \in Pod!Terminated
             restarts == IF again THEN o.restarts + 1 ELSE o.restarts
             ended == IF o.state \in Pod!Terminated THEN o.state ELSE o.last
             k == [o EXCEPT !.state = "running", !.started = clock,
                            !.restarts = restarts, !.last = ended]
  <2>1. Pod!Set(p, c, k) /\ crashed' = crashed /\ (again => o.restarts < MaxRestarts)
    BY <1>8 DEF Pod!Start
  <2>2. o \in Pod!Container
    BY <1>2
  <2>3. restarts \in 0..MaxRestarts /\ ended \in Pod!Terminated \cup {None}
    <3>1. o.restarts \in 0..MaxRestarts /\ o.last \in Pod!Terminated \cup {None}
      BY <2>2 DEF Pod!Container
    <3>2. QED
      BY <2>1, <3>1, Bounds
  <2>4. ended \in Pod!Failures => Failed(o)
    BY DEF Failed
  <2> HIDE DEF restarts, ended, o
  <2>5. k \in Pod!Container
    BY <1>2, <2>2, <2>3 DEF Pod!Container
  <2>6. k.state = "running" /\ k.last = ended
    BY <2>2 DEF Pod!Container
  <2>7. Failed(k) => Failed(o)
    BY <2>4, <2>6 DEF Failed, Pod!Failures
  <2> HIDE DEF k
  <2>8. Failed(o) => p \in crashed
    BY <1>2 DEF o
  <2>9. QED
    BY <1>1, <1>2, <2>1, <2>5, <2>7, <2>8, Setting
<1>9. ASSUME NEW p \in PodNames, NEW c \in Containers, Pod!Probe(p, c) PROVE PodsKnown'
  <2> DEFINE k == [container[p][c] EXCEPT !.ready = ~@]
  <2>1. Pod!Set(p, c, k) /\ crashed' = crashed
    BY <1>9 DEF Pod!Probe
  <2>2. k \in Pod!Container /\ (Failed(k) => p \in crashed)
    BY <1>2 DEF Pod!Container, Failed
  <2> HIDE DEF k
  <2>3. QED
    BY <1>1, <1>2, <2>1, <2>2, Setting
<1>10. ASSUME NEW p \in PodNames, NEW c \in Containers, Pod!Exit(p, c) PROVE PodsKnown'
  <2>1. PICK why \in Pod!Failures :
          Pod!Set(p, c, [container[p][c] EXCEPT !.state = why, !.ready = FALSE])
    BY <1>10 DEF Pod!Exit
  <2> DEFINE k == [container[p][c] EXCEPT !.state = why, !.ready = FALSE]
  <2>2. crashed' = crashed \cup {p}
    BY <1>10 DEF Pod!Exit
  <2>3. k \in Pod!Container
    BY <1>2 DEF Pod!Container, Pod!Terminated
  <2>4. Pod!Set(p, c, k)
    BY <2>1
  <2> HIDE DEF k
  <2>5. QED
    BY <1>1, <1>2, <2>2, <2>3, <2>4, Setting
<1>11. ASSUME NEW p \in PodNames, NEW c \in Containers, Pod!BackOff(p, c) PROVE PodsKnown'
  <2> DEFINE k == [container[p][c] EXCEPT !.state = "CrashLoopBackOff",
                                          !.last = container[p][c].state]
  <2>1. Pod!Set(p, c, k) /\ crashed' = crashed /\ container[p][c].state \in Pod!Failures
    BY <1>11 DEF Pod!BackOff
  <2>2. k \in Pod!Container /\ p \in crashed
    BY <1>2, <2>1 DEF Pod!Container, Pod!Terminated, Pod!Waiting, Failed
  <2> HIDE DEF k
  <2>3. QED
    BY <1>1, <1>2, <2>1, <2>2, Setting
<1>12. ASSUME Pod!Tick PROVE PodsKnown'
  <2>1. /\ UNCHANGED <<container, changed, removed, crashed>>
        /\ clock' = clock + 1 /\ clock' \in 0..MaxClock
    BY <1>2, <1>12, Bounds DEF Pod!Tick
  <2>2. \A p \in PodNames : changed[p] \in 0..clock'
    BY <1>2, <2>1 DEF Pod!TypeOK
  <2>3. Pod!TypeOK'
    BY <1>2, <2>1, <2>2 DEF Pod!TypeOK
  <2>4. QED
    BY <1>2, <2>1, <2>3 DEF PodsKnown
<1>13. QED
  BY <1>1, <1>3, <1>4, <1>5, <1>6, <1>7, <1>8, <1>9, <1>10, <1>11, <1>12 DEF Pod!Next

(* No pod is said to crash that never did.                                 *)
LEMMA NoCrashOfReboot == PodsKnown => Pod!RebootIsNoCrash
<1>1. SUFFICES ASSUME PodsKnown, NEW p \in PodNames,
                      Pod!Detect(p).status \in {"CrashLoopBackOff", "Error", "OOMKilled"}
               PROVE  p \in crashed
  BY DEF Pod!RebootIsNoCrash
<1> DEFINE r == Pod!Detect(p).status
<1>2. r \in Candidates(p)
  <2>1. Candidates(p) # {} /\ r = Pod!Foremost(Candidates(p))
    BY <1>1, SaidNow DEF SaidOfAll, SaidOf, Pod!Phase
  <2>2. QED
    BY <2>1, ForemostIsOne, CandidatesExplain
<1> HIDE DEF r
<1>3. PICK c \in Containers :
        r \in Pod!Current(container[p][c]) \/ r \in Pod!History(container[p][c])
  BY <1>2 DEF Candidates
<1> DEFINE k == container[p][c]
<1>4. k.last \in Pod!Failures \cup {"Unknown", None}
  BY <1>1 DEF PodsKnown, Pod!TypeOK, Pod!Container, Pod!Terminated
<1>5. r \in {"CrashLoopBackOff", "Error", "OOMKilled"}
  BY <1>1 DEF r
<1>6. r = k.state \/ r = k.last \/ k.last \notin {"Completed", "Unknown", None}
  BY <1>3 DEF Pod!Current, Pod!History, Pod!RestartCandidate, Pod!NOT_A_CRASH
<1>7. Failed(k)
  BY <1>4, <1>5, <1>6, NoneIsNoFailure DEF Failed, Pod!Failures
<1>8. QED
  BY <1>1, <1>7 DEF PodsKnown

(* The newest time stamp of a read is no later than the read.              *)
LEMMA NewestIsPast ==
  ASSUME PodsKnown, PodNames # {}
  PROVE  Pod!NewestTimestamp \in 0..clock
<1> DEFINE S == {changed[p] : p \in PodNames}
           D == {clock - x : x \in S}
<1>1. S # {} /\ S \subseteq 0..clock /\ clock \in Nat
  BY Bounds DEF PodsKnown, Pod!TypeOK
<1>2. Pod!NewestTimestamp = Pod!Max(S)
  BY DEF Pod!NewestTimestamp
<1> HIDE DEF S
<1>3. D # {} /\ D \subseteq Nat
  <2>1. \A x \in S : x \in Int /\ clock - x \in Nat
    BY <1>1
  <2>2. QED
    BY <1>1, <2>1
<1>4. PICK d \in D : \A e \in D : d <= e
  BY <1>3, Least
<1>5. PICK x \in S : d = clock - x
  BY <1>4
<1>6. \A y \in S : x >= y
  BY <1>1, <1>4, <1>5
<1>7. Pod!Max(S) \in S
  BY <1>6 DEF Pod!Max
<1>8. QED
  BY <1>1, <1>2, <1>7

(* What is taken for the past is.                                          *)
LEMMA StableWasStable == PodsKnown => Pod!StableIsPast
<1>1. SUFFICES ASSUME PodsKnown, NEW p \in PodNames, NEW c \in Containers,
                      Pod!Stable(container[p][c])
               PROVE  /\ container[p][c].ready
                      /\ clock - container[p][c].started >= StableAfter
  BY DEF Pod!StableIsPast
<1>2. /\ container[p][c].ready
      /\ Pod!NewestTimestamp - container[p][c].started >= StableAfter
  BY <1>1 DEF Pod!Stable
<1>3. container[p][c].started \in Nat /\ clock \in Nat /\ StableAfter \in Nat
  BY <1>1, Bounds DEF PodsKnown, Pod!TypeOK, Pod!Container
<1>4. Pod!NewestTimestamp \in Nat /\ Pod!NewestTimestamp <= clock
  BY <1>1, <1>3, NewestIsPast
<1>5. QED
  BY <1>2, <1>3, <1>4

(* The status of a pod can be relied on, of any pods and any containers,   *)
(* wherever the bounds are: no reboot is said to be a crash, what is taken *)
(* for the past is, a pod that does not serve has a status, and two reads  *)
(* of one loop agree.                                                      *)
THEOREM ReadsCanBeReliedOn == MCSpec => ReadsAgree
<1> DEFINE Round ==
      \A p \in PodNames :
        (\E c \in Containers : Rounds(p, c)) /\ UNCHANGED removed
          => Pod!Detect(p).status' = Pod!Detect(p).status
<1>1. MCInit => PodsKnown
  BY PodsStart DEF MCInit
<1>2. PodsKnown /\ [MCNext]_MCvars => PodsKnown'
  <2>1. [MCNext]_MCvars => [Pod!Next]_Pod!vars
    BY DEF MCNext, MCvars, OfSignals, OfIncident, OfPods, OfPlans, OfAnswers, OfReads,
       podVars, Pod!vars
  <2>2. QED
    BY <2>1, PodsKept
<1>3. PodsKnown => /\ Pod!TypeOK /\ Pod!RebootIsNoCrash
                   /\ Pod!StableIsPast /\ Pod!BrokenIsVisible
  BY NoCrashOfReboot, StableWasStable, BrokenShows DEF PodsKnown
<1>4. Round
  BY RoundsAgree
<1>5. [MCNext]_MCvars => [Round]_Pod!vars
  BY <1>4
<1>6. MCSpec => [][Round]_Pod!vars
  BY <1>5, PTL DEF MCSpec
<1>7. [][Round]_Pod!vars => Pod!TwoReadsAgree
  BY PTL DEF Pod!TwoReadsAgree, Rounds
<1>8. QED
  BY <1>1, <1>2, <1>3, <1>6, <1>7, PTL DEF MCSpec, ReadsAgree, Pod!ReadsAgree

----------------------------------------------------------------------------
(* A fault as it unfolds.                                                  *)

(* What is said of a pod to be so now is so: it is not Ready.              *)
Honest(c) == c.status # "healthy" /\ c.now => ~c.ready

Unfolding ==
  /\ fault \in DOMAIN Course
  /\ DOMAIN condition = AllPods
  /\ \A p \in AllPods : Honest(condition[p])

LEMMA CoursesAreHonest ==
  /\ Honest(Well)
  /\ \A status, why : \A c \in Since(status, why) : Honest(c)
  /\ \A f \in DOMAIN Course : \A c \in Course[f] : Honest(c)
<1>1. Honest(Well)
  BY DEF Honest, Well
<1>2. \A status : Honest(At(status))
  BY DEF Honest, At
<1>3. \A status, why : Honest(Ended(status, why))
  BY DEF Honest, Ended, At
<1>4. \A status, why : \A c \in Since(status, why) : Honest(c)
  BY DEF Honest, Since, Ended, At
<1>5. \A why : \A c \in Looping(why) : Honest(c)
  BY <1>2, <1>3, <1>4 DEF Looping
<1>6. ASSUME NEW f \in DOMAIN Course, NEW c \in Course[f] PROVE Honest(c)
  <2>1. f \in {"claim", "class", "capacity", "image", "config", "crash", "memory", "liveness",
              "readiness", "node", "pressure", "selector"}
    BY DEF Course
  <2>2. \/ c = Well \/ (\E status : c = At(status)) \/ (\E status, why : c \in Since(status, why))
        \/ (\E why : c \in Looping(why))
    BY <1>6, <2>1 DEF Course
  <2>3. QED
    BY <1>1, <1>2, <1>4, <1>5, <2>2
<1>7. QED
  BY <1>1, <1>4, <1>6

LEMMA UnfoldingStarts == Init => Unfolding
<1>1. SUFFICES ASSUME Init PROVE Unfolding
  OBVIOUS
<1>2. fault \in DOMAIN Course
  BY <1>1, IncidentAssumption DEF Init
<1>3. PICK past \in {Well} \cup Since("CrashLoopBackOff", "error") :
        condition \in [AllPods -> {Well, past} \cup Course[fault]]
  BY <1>1 DEF Init
<1>4. \A c \in {Well, past} \cup Course[fault] : Honest(c)
  BY <1>2, <1>3, CoursesAreHonest
<1>5. QED
  BY <1>2, <1>3, <1>4 DEF Unfolding

LEMMA UnfoldingKept == Unfolding /\ [Next]_vars => Unfolding'
<1>1. SUFFICES ASSUME Unfolding, [Next]_vars PROVE Unfolding'
  OBVIOUS
<1>2. ASSUME NEW p \in Affected, Moves(p) PROVE Unfolding'
  <2>1. PICK c \in Course[fault] : condition' = [condition EXCEPT ![p] = c]
    BY <1>2 DEF Moves
  <2>2. fault' = fault /\ Honest(c)
    BY <1>1, <1>2, CoursesAreHonest DEF Moves, Unfolding
  <2>3. /\ DOMAIN condition' = AllPods
        /\ \A q \in AllPods : condition'[q] = c \/ condition'[q] = condition[q]
    BY <1>1, <2>1 DEF Unfolding
  <2>4. QED
    BY <1>1, <2>2, <2>3 DEF Unfolding, Honest
<1>3. CASE fault' = fault /\ condition' = condition
  BY <1>1, <1>3 DEF Unfolding, Honest
<1>4. QED
  BY <1>1, <1>2, <1>3 DEF Next, Records, Expires, Stalls, vars

LEMMA UnfoldingSaysWhatIs == Unfolding => SaysWhatIs
<1>1. SUFFICES ASSUME Unfolding, NEW s \in GraphRules \cup ServiceSelectorRule
               PROVE  /\ s.type = "graph.pod_blocked_by_storage" => Claim[s.target] \in Unbound
                      /\ s.type = "graph.storage_class_blocking" => Cardinality(Unbound) >= 2
                      /\ s.type = "graph.node_carrying_failures" =>
                           Cardinality(Down(s.target)) >= 2
                      /\ s.type = "graph.service_backends_failing" =>
                           Backends # {} /\ \A p \in Backends : ~condition[p].ready
                      /\ s.type = "network.selector_matches_nothing" => Backends = {}
  BY DEF SaysWhatIs
<1>2. CASE s \in PodBlockedByStorage
  BY <1>2 DEF PodBlockedByStorage, SignalsOn, Signal, UnboundRead
<1>3. CASE s \in StorageClassBlockingWorkloads
  <2>1. Cardinality(UnboundRead) >= 2 /\ s.type = "graph.storage_class_blocking"
    BY <1>3 DEF StorageClassBlockingWorkloads, SignalIf, Signal
  <2>2. CASE Read("storage")
    <3>1. UnboundRead = Unbound
      BY <2>2 DEF UnboundRead
    <3>2. QED
      BY <2>1, <3>1
  <2>3. CASE ~Read("storage")
    <3>1. UnboundRead = {}
      BY <2>3 DEF UnboundRead
    <3>2. Cardinality(UnboundRead) = 0
      BY <3>1, FS_EmptySet
    <3>3. QED
      BY <2>1, <3>2
  <2>4. QED
    BY <2>2, <2>3
<1>4. CASE s \in NodeCarryingFailures
  <2>1. PICK n \in Nodes : /\ Cardinality(On(n) \cap FailingNow) >= 2
                          /\ s.type = "graph.node_carrying_failures" /\ s.target = n
    BY <1>4 DEF NodeCarryingFailures, SignalsOn, Signal
  <2>2. On(n) \cap FailingNow \subseteq Down(n)
    BY <1>1 DEF On, FailingNow, Problematic, Down, Unfolding, Honest
  <2>3. IsFiniteSet(Down(n))
    <3>1. IsFiniteSet(AllPods)
      BY IncidentAssumption, FS_AddElement DEF AllPods
    <3>2. Down(n) \subseteq AllPods
      BY DEF Down
    <3>3. QED
      BY <3>1, <3>2, FS_Subset
  <2>4. /\ Cardinality(On(n) \cap FailingNow) <= Cardinality(Down(n))
        /\ Cardinality(On(n) \cap FailingNow) \in Nat /\ Cardinality(Down(n)) \in Nat
    BY <2>2, <2>3, FS_Subset, FS_CardinalityType
  <2>5. Cardinality(Down(n)) >= 2
    BY <2>1, <2>4
  <2>6. QED
    BY <2>1, <2>5
<1>5. CASE s \in ServiceSelectingOnlyBrokenPods
  <2>1. /\ Backends # {} /\ Backends \subseteq FailingNow
        /\ s.type = "graph.service_backends_failing"
    BY <1>5 DEF ServiceSelectingOnlyBrokenPods, SignalIf, Signal
  <2>2. \A p \in Backends : ~condition[p].ready
    BY <1>1, <2>1 DEF FailingNow, Problematic, Unfolding, Honest
  <2>3. QED
    BY <2>1, <2>2
<1>6. CASE s \in ServiceSelectorRule
  BY <1>6 DEF ServiceSelectorRule, SignalIf, Signal
<1>7. QED
  BY <1>1, <1>2, <1>3, <1>4, <1>5, <1>6 DEF GraphRules

(* Whatever the fault, the pods and the section that is missing, and at    *)
(* every moment: what the graph joins is so.                               *)
THEOREM GraphSaysWhatIs == MCSpec => []SaysWhatIs
<1>1. MCInit => Unfolding
  BY UnfoldingStarts DEF MCInit
<1>2. Unfolding /\ [MCNext]_MCvars => Unfolding'
  <2>1. [MCNext]_MCvars => [Next]_vars
    BY DEF MCNext, MCvars, OfSignals, OfIncident, OfPods, OfPlans, OfAnswers, OfReads
  <2>2. QED
    BY <2>1, UnfoldingKept
<1>3. QED
  BY <1>1, <1>2, UnfoldingSaysWhatIs, PTL DEF MCSpec

=============================================================================

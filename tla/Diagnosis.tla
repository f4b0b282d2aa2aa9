------------------------------ MODULE Diagnosis ------------------------------
(***************************************************************************)
(* From ranked hypotheses to a diagnosis: the one call to a model          *)
(* (ai/llm_client.py, ai/providers/), the check of what it answers         *)
(* (analysis/grounding.py), and what is told of it or, without it, of the  *)
(* leading hypothesis (ai/root_cause_analyzer.py and what it calls).       *)
(*                                                                         *)
(* The signals of the read and the scope are those of Analysis.  Prose is  *)
(* told apart by who wrote it and, where it is checked, by what it claims. *)
(* An answer cites signals, selects a hypothesis and may invent a resource *)
(* or deny that anything is wrong; which words do is not modelled.         *)
(***************************************************************************)
EXTENDS Analysis, SequencesExt

CONSTANTS
  Reads,           \* what may have been seen, sets of signals
  Section,         \* the findings a signal is one of, or "none"
  Commands,        \* of the plan for a rule's hypothesis
  Investigations,  \* [unread, lacks, capped, completeness, held]
  Settings         \* [named, keys, url]

VARIABLES
  analysis,       \* the ranked hypotheses and how many are about the scope
  investigation,  \* what else the diagnosis reads of it
  setting,        \* the provider that is configured
  attempts,       \* calls that were made and failed
  outcome,        \* "asking", "told", or "failed": the run ended by an error
  diagnosis,      \* what was told, or None
  counted         \* what the metrics say of it

answerVars == <<analysis, investigation, setting, attempts, outcome, diagnosis, counted>>
readVars == <<seen, scope, analysis, investigation, setting>>

MaxAttempts == 3
Unheard == 0   \* an id that no hypothesis has

----------------------------------------------------------------------------
(* What was found. *)

Ranking == analysis.hypotheses
HypothesisIds == {Ranking[i].id : i \in DOMAIN Ranking}
Leader == IF Ranking = <<>> THEN None ELSE Ranking[1]
Hypothesis(id) == CHOOSE h \in Range(Ranking) : h.id = id
IdOf(h) == IF h = None THEN None ELSE h.id

Found == {Section[s] : s \in seen} \ {"none"}
Severe == {s \in seen : Weight[s] >= 4}

(* A section that could not be read is an error of the whole cluster; what *)
(* logs say is no finding.                                                 *)
Status ==
  IF investigation.unread # {} THEN "error"
  ELSE IF Found \subseteq {"logs"} THEN "healthy" ELSE "issues_found"

AnalysisOf(S) ==
  [hypotheses |-> Analyze(S),
   scoped     |-> IF scope = None THEN 0
                  ELSE Cardinality(Hypotheses({s \in S : InScope(Target[s])}))]

----------------------------------------------------------------------------
(* Confidence: weighted scores, in tenths, each rounded half to even.  Of  *)
(* what 0.7 multiplies, two halves fall short of it in binary.             *)

Share(weight, score) ==
  LET whole == (weight * score) \div 10
      rest  == (weight * score) % 10
      short == weight = 7 /\ score \in {45, 85}
  IN IF ~short /\ (rest > 5 \/ (rest = 5 /\ whole % 2 = 1)) THEN whole + 1 ELSE whole

Bounded(n) == Max({0, Min({n, 100})})

(* Raw findings, for a read that no rule matched.                          *)
Heuristic ==
  LET worth == [pods |-> 20, logs |-> 20, events |-> 15, deployments |-> 10, network |-> 10]
      there == DOMAIN worth \cap Found
  IN Min({95, 35 + MapThenSumSet(LAMBDA f : worth[f], there)})

EvidenceScore(heuristic) ==
  IF Leader # None THEN Leader.confidence
  ELSE IF Status = "healthy" THEN 70
  ELSE IF heuristic THEN Heuristic ELSE 30

DeterministicShares ==
  <<Share(7, EvidenceScore(TRUE)), Share(3, Bounded(investigation.completeness))>>
SharesWith(ai) ==
  <<Share(5, EvidenceScore(FALSE)), Share(3, Bounded(ai)),
    Share(2, Bounded(investigation.completeness))>>

Total(shares, cap) == Min({FoldSeq(+, 0, shares), cap})

----------------------------------------------------------------------------
(* Views of the hypotheses. *)

(* The resource an incident is about; a replica is folded into its owner.  *)
WorkloadKey(t) ==
  IF t.kind # "Pod" THEN <<t.kind, t.ns, t.name>>
  ELSE <<"workload", t.ns, IF t.suffix = "replica" THEN t.owner ELSE t.name>>

GroupIncidents ==
  LET Key(i) == WorkloadKey(Ranking[i].target)
      firsts == {i \in DOMAIN Ranking : \A j \in 1..(i - 1) : Key(j) # Key(i)}
      Members(i) == {j \in DOMAIN Ranking : Key(j) = Key(i)}
      Ordered(S) == SetToSortSeq(S, <)
  IN [n \in 1..Cardinality(firsts) |->
        LET of == Ordered(Members(Ordered(firsts)[n]))
        IN [m \in DOMAIN of |-> Ranking[of[m]].id]]

MostConfident ==
  Ranking[CHOOSE i \in DOMAIN Ranking :
            \A j \in DOMAIN Ranking :
              \/ Ranking[i].confidence > Ranking[j].confidence
              \/ Ranking[i].confidence = Ranking[j].confidence /\ i <= j]

IsScoped(h) == \E i \in 1..analysis.scoped : Ranking[i] = h

NoReason == [why |-> "none", over |-> {}]

(* What the evidence could not choose between.                             *)
Tie(top) ==
  LET tied == {h \in Range(Ranking) :
                 /\ h.id # top.id
                 /\ h.confidence = top.confidence /\ h.severity = top.severity
                 /\ (h.against = {}) = (top.against = {})}
      broader == \A h \in tied : Cardinality(top.for) > Cardinality(h.for)
  IN IF tied = {} THEN NoReason
     ELSE [why |-> IF broader THEN "breadth" ELSE "arbitrary", over |-> {h.id : h \in tied}]

(* Faulty: any explanation will do.                                        *)
RationaleOfScope(top) ==
  IF MostConfident.confidence > top.confidence
  THEN [why |-> "scope", over |-> {MostConfident.id}] ELSE NoReason

(* Why one was selected over a more confident one. *)
SelectionRationale(top) ==
  LET most == MostConfident
      Because(why) == [why |-> why, over |-> {most.id}]
  IN IF Ranking = <<>> THEN NoReason
     ELSE IF most.confidence <= top.confidence
          THEN IF top = Leader THEN Tie(top) ELSE NoReason
     ELSE IF top # Leader THEN Because("model")
     ELSE IF scope # None /\ IsScoped(top) /\ ~IsScoped(most) THEN Because("scope")
     ELSE IF most.against # {} /\ top.against = {} THEN Because("refuted")
     ELSE NoReason

(* What a rule lists as missing, by the evidence that would answer it.     *)
MissingEvidence(id) ==
  CASE id \in {1, 9, 19, 20} -> {"k8s.pod.spec", "prose"}
    [] id = 2  -> {"k8s.endpointslices", "k8s.pod.spec"}
    [] id = 6  -> {"k8s.network", "k8s.endpointslices", "k8s.pods"}
    [] id = 7  -> {"k8s.nodes", "k8s.resource.events"}
    [] id = 13 -> {"k8s.storageclasses", "k8s.resource.events"}
    [] id = 14 -> {"k8s.storageclasses", "k8s.volumeattachments"}
    [] id = 17 -> {"k8s.storageclasses", "k8s.volumeattachments", "prose"}
    [] id = 18 -> {"k8s.pod.logs.previous", "k8s.pod.spec", "k8s.pod.config_refs"}
    [] OTHER   -> {"prose"}

PerPod == {"k8s.pod.spec", "k8s.pod.logs.previous", "k8s.pod.config_refs", "k8s.resource.events"}

(* Evidence of one pod answers nothing about another.                      *)
Outstanding(h) ==
  {k \in MissingEvidence(h.id) :
     ~ \E e \in investigation.held : e.kind = k /\ (k \in PerPod => e.of = h.target)}

EvidenceGaps(h) ==
  investigation.lacks
    \cup (investigation.unread \cap {"storage", "nodes"})
    \cup (IF investigation.capped THEN {"capped"} ELSE {})
    \cup (IF h = None THEN {} ELSE Outstanding(h))

----------------------------------------------------------------------------
(* Commands are shown as the platform knows them.                          *)

ReadOnlyVerbs == {"describe", "events", "get", "logs", "top"}
ReadOnlyPairs == {<<"rollout", "status">>, <<"rollout", "history">>,
                  <<"auth", "can-i">>, <<"config", "view">>}

AssertReadOnly(c) == c.verb \in ReadOnlyVerbs \/ <<c.verb, c.sub>> \in ReadOnlyPairs

ClassifyCommand(c) ==
  IF ~c.kubectl THEN "unrecognised"
  ELSE IF AssertReadOnly(c) THEN "read-only" ELSE "mutating"

GenericCommands == {[kubectl |-> TRUE, verb |-> "get", sub |-> "pods"]}

VettedCommands(h) ==
  {[command |-> c, labelled |-> ClassifyCommand(c) = "mutating"] :
     c \in {d \in IF h = None THEN GenericCommands ELSE Commands[h.id] :
              ClassifyCommand(d) # "unrecognised"}}
----------------------------------------------------------------------------
(* Without a model.  The cause that is told is the leader's, or what stood *)
(* in the way, whichever hypothesis the rest is about.                     *)

By(who, of) == [by |-> who, of |-> of]

RootCauseSummary ==
  IF Status # "issues_found" THEN By(Status, None)
  ELSE IF Leader # None
       THEN By(IF scope # None /\ analysis.scoped = 0 THEN "elsewhere" ELSE "leader", Leader.id)
  ELSE LET order == <<"pods", "deployments", "network", "events">>
           there == {i \in DOMAIN order : order[i] \in Found}
       IN By(IF there = {} THEN "nothing clear" ELSE order[Min(there)], None)

(* The diagnosis of h, or of the leader. *)
Fallback(h, failed) ==
  LET top == IF h = None THEN Leader ELSE h
      of  == By("platform", IdOf(top))
  IN [cause       |-> RootCauseSummary,
      explanation |-> By("platform", IdOf(Leader)),
      failed      |-> failed,
      fix         |-> of,
      prevention  |-> of,
      plan        |-> IdOf(top),
      commands    |-> VettedCommands(top),
      gaps        |-> EvidenceGaps(top),
      shares      |-> DeterministicShares,
      confidence  |-> Total(DeterministicShares, 95),
      incidents   |-> GroupIncidents,
      rationale   |-> IF top = None THEN NoReason ELSE SelectionRationale(top),
      selected    |-> IdOf(top),
      chosen      |-> None,
      cites       |-> IF top = None THEN {} ELSE top.for,
      ai          |-> FALSE]

(* Faulty: the model's choice is explained and the leader's plan made.     *)
NormalizeForLeader(a) ==
  [Fallback(None, FALSE) EXCEPT
     !.cause = By("model", a.cause), !.selected = IF a.selected = None THEN @ ELSE a.selected,
     !.chosen = a.selected, !.cites = IF a.cites = {} THEN @ ELSE a.cites, !.ai = TRUE]

(* With an accepted answer: the model's prose over the platform's plan for *)
(* the hypothesis it selected.                                             *)
Normalize(a) ==
  LET base  == Fallback(IF a.selected = None THEN None ELSE Hypothesis(a.selected), FALSE)
      model == By("model", a.selected)
      ai    == IF a.says = "number" THEN a.percent ELSE base.confidence
  IN [base EXCEPT
        !.cause = By("model", a.cause),
        !.explanation = IF a.fills THEN model ELSE @,
        !.fix = IF a.fills THEN model ELSE @,
        !.prevention = IF a.fills THEN model ELSE @,
        !.gaps = IF a.fills THEN {"model"} ELSE @,
        !.shares = SharesWith(ai),
        !.confidence = Total(SharesWith(ai), 100),
        !.chosen = a.selected,
        !.cites = IF a.cites = {} THEN @ ELSE a.cites,
        !.ai = TRUE]

----------------------------------------------------------------------------
(* What a model may answer, and what is held against it.                   *)

(* "denies": it says that nothing is wrong.  Of the signals it cites one,  *)
(* all or none; what it makes up besides is dropped.                       *)
Answers == {a \in
  [cause    : {"empty", "claims", "denies"},
   selected : HypothesisIds \cup {Unheard, None},
   cites    : {c \in SUBSET seen : Cardinality(c) <= 1 \/ c = seen},
   invents  : BOOLEAN,
   fills    : BOOLEAN,
   says     : {"nothing", "number", "infinity"},
   percent  : {0, 100}] : a.says # "number" => a.percent = 0}

IgnoresSelection(a) ==
  \E h \in Range(Ranking) :
    h.id = a.selected /\ a.cites # {} /\ h.for # {} /\ h.for \cap a.cites = {}

(* In the order they are checked, and the label each is counted under: the *)
(* second looks for a word that its message does not have.                 *)
Objections(a) ==
  << <<a.cause = "empty", "empty_root_cause">>,
     <<a.selected \notin HypothesisIds \cup {None}, "fabricated_hypothesis">>,
     <<seen # {} /\ a.cites = {}, "other">>,
     <<Severe # {} /\ a.cause = "denies", "contradiction">>,
     <<IgnoresSelection(a), "irrelevant_citations">>,
     <<seen # {} /\ a.invents, "invented_resource">> >>

Rejection(a) ==
  LET held == {i \in DOMAIN Objections(a) : Objections(a)[i][1]}
  IN IF held = {} THEN None ELSE Objections(a)[Min(held)][2]
----------------------------------------------------------------------------
(* The provider. *)

(* A provider that is not named is the one a key is there for.             *)
ResolveName ==
  IF setting.named # "" THEN setting.named
  ELSE IF "openai" \in setting.keys THEN "openai"
  ELSE IF "anthropic" \in setting.keys THEN "anthropic"
  ELSE IF setting.url THEN "compatible" ELSE "openai"

Configured ==
  IF ResolveName = "compatible" THEN setting.url ELSE ResolveName \in setting.keys

(* What an endpoint may answer when it does not answer with an object: it  *)
(* refuses or is not there, sends what is not JSON, an object without what *)
(* is looked for, JSON that is no object, nothing for a content, a refusal *)
(* of the model, an answer cut short, or prose.                            *)
Responses ==
  {"refused", "garbled", "misshapen", "no object", "null", "declined", "truncated", "prose"}

Anthropic == ResolveName = "anthropic"

(* What raises an error that is caught, and the call is made again.        *)
Retried == {"refused", "garbled"} \cup IF Anthropic THEN {} ELSE {"misshapen", "no object"}

(* What the provider calls a failure.                                      *)
Failed == IF Anthropic THEN {"misshapen", "null", "declined", "truncated"} ELSE {}

(* What raises an error that is not: OpenAI's refusal has no content.      *)
Raises == IF Anthropic THEN {"no object"} ELSE {"null", "declined"}

Unparseable == {"prose"} \cup IF Anthropic THEN {} ELSE {"truncated"}

----------------------------------------------------------------------------
Count(llm, rejected, told) == [llm |-> llm, rejected |-> rejected, diagnosis |-> told]

(* The analysis is made before any model is called.                        *)
Analyzed ==
  /\ seen \in Reads /\ scope \in Scopes
  /\ investigation \in Investigations /\ setting \in Settings
  /\ analysis = AnalysisOf(seen)
  /\ attempts = 0 /\ outcome = "asking" /\ diagnosis = None
  /\ counted = Count("none", "none", "none")

Tell(d, llm, rejected) ==
  /\ outcome' = "told" /\ diagnosis' = d
  /\ counted' = Count(llm, rejected, IF d.ai THEN "grounded" ELSE "fallback")
  /\ UNCHANGED <<readVars, attempts>>

(* No model is configured, and none is called.                             *)
Skip ==
  outcome = "asking" /\ ~Configured /\ Tell(Fallback(None, TRUE), "skipped", "none")

Asking == outcome = "asking" /\ Configured

Retry(r) ==
  /\ Asking /\ r \in Retried /\ attempts + 1 < MaxAttempts
  /\ attempts' = attempts + 1
  /\ UNCHANGED <<readVars, outcome, diagnosis, counted>>

GiveUp(r) ==
  /\ Asking /\ r \in Retried /\ attempts + 1 = MaxAttempts
  /\ Tell(Fallback(None, TRUE), "failed", "none")

Declined(r) == Asking /\ r \in Failed /\ Tell(Fallback(None, TRUE), "failed", "none")

Prose(r) ==
  Asking /\ r \in Unparseable /\ Tell(Fallback(None, FALSE), "succeeded", "unparseable")

(* The run ends by an error, after what was counted before it.             *)
Raise(llm, told) ==
  /\ outcome' = "failed" /\ counted' = Count(llm, "none", told)
  /\ UNCHANGED <<readVars, attempts, diagnosis>>

Break(r) ==
  /\ Asking /\ r \in Raises
  /\ Raise(IF Anthropic THEN "none" ELSE "succeeded", "none")

Reject(a) ==
  Asking /\ Rejection(a) # None /\ Tell(Fallback(None, FALSE), "succeeded", Rejection(a))

(* An accepted answer may still state a confidence that is no integer: it  *)
(* is counted as grounded, and then raises.                                *)
Accept(a) ==
  /\ Asking /\ Rejection(a) = None
  /\ IF a.says = "infinity" THEN Raise("succeeded", "grounded")
     ELSE Tell(Normalize(a), "succeeded", "none")

Diagnose ==
  \/ Skip
  \/ \E r \in Responses : Retry(r) \/ GiveUp(r) \/ Declined(r) \/ Prose(r) \/ Break(r)
  \/ \E a \in Answers : Reject(a) \/ Accept(a)

----------------------------------------------------------------------------
Told == outcome = "told"
Subject == Hypothesis(diagnosis.selected)

(* Whatever a model answers, what is told of a hypothesis is of one that   *)
(* exists and, if the model chose it, rests on something it cited; what    *)
(* the platform adds (plan, commands, gaps) is of that one and no other;   *)
(* a model does not deny what is severe; and it is counted as it was made  *)
(* (root_cause_analyzer.py:120-126, grounding.py:92-98).                   *)
DiagnosisIsGrounded == Told =>
  LET d == diagnosis IN
    /\ d.cites \subseteq seen /\ (d.ai /\ seen # {} => d.cites # {})
    /\ IF Ranking = <<>> THEN d.selected = None ELSE d.selected \in HypothesisIds
    /\ d.plan = d.selected /\ (d.ai \/ d.selected = IdOf(Leader))
    /\ d.chosen # None => d.selected = d.chosen /\ d.cites \cap Subject.for # {}
    /\ \A e \in investigation.held : e.kind \in d.gaps => e.kind \in PerPod /\ e.of # Subject.target
    /\ d.ai /\ (\E s \in d.cites : Weight[s] >= 4) => d.cause.of # "denies"
    /\ \A c \in d.commands :
         c.command.verb = "set" \/ c.command.sub = "undo" => c.labelled
    /\ counted.diagnosis = (IF d.ai THEN "grounded" ELSE "fallback")
    /\ d.ai => counted.llm = "succeeded" /\ counted.rejected = "none"

(* A hypothesis that is told before a more confident one says truly why.   *)
RationaleIsTrue ==
  LET d == diagnosis IN
  \A h \in Range(Ranking) : h.confidence > Subject.confidence =>
    \E k \in Range(Ranking) :
      /\ d.rationale.over = {k.id} /\ k.confidence >= h.confidence
      /\ \/ d.rationale.why = "model" /\ d.chosen = d.selected /\ d.selected # Leader.id
         \/ /\ d.rationale.why = "scope" /\ d.selected = Leader.id
            /\ InScope(Subject.target) /\ ~InScope(k.target)
         \/ /\ d.rationale.why = "refuted" /\ d.selected = Leader.id
            /\ k.against # {} /\ Subject.against = {}

(* Every hypothesis is of one incident, the first of the first is the      *)
(* leader, and pods of one Deployment, and of one namespace, are together. *)
IncidentsPartition ==
  LET groups == diagnosis.incidents
      Of(id) == {n \in DOMAIN groups : \E m \in DOMAIN groups[n] : groups[n][m] = id}
  IN /\ \A h \in Range(Ranking) : Cardinality(Of(h.id)) = 1
     /\ Ranking # <<>> => groups[1][1] = Leader.id
     /\ \A h, k \in Range(Ranking) :
          /\ Of(h.id) = Of(k.id) => h.target.ns = k.target.ns
          /\ h.target.kind = "Pod" /\ k.target.kind = "Pod" =>
               (Of(h.id) = Of(k.id) <=> Instance(h.target) = Instance(k.target))

(* A confident model over evidence that was half collected does not       *)
(* outrank a well supported conclusion without one (confidence.py:10-13).  *)
ConfidenceIsTempered ==
  LET d == diagnosis
      complete == Total(<<Share(7, Leader.confidence), Share(3, 100)>>, 95)
  IN /\ d.confidence \in 0..100
     /\ d.ai /\ Leader # None /\ investigation.completeness <= 50 =>
          (Leader.confidence >= 60 => d.confidence < complete)

DiagnosisExplainsItself ==
  Told => RationaleIsTrue /\ IncidentsPartition /\ ConfidenceIsTempered
=============================================================================

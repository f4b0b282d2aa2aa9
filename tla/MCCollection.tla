---------------------------- MODULE MCCollection ----------------------------
(* How an investigation collects its evidence (Collection), what it finds  *)
(* and says of a cluster (Findings), and how the answer of a list is read  *)
(* (ListReader).  The first knows when reads are made and which are        *)
(* reused, the second what they bring back, the third that it is all of    *)
(* it: they share nothing here, and each behaviour is one of one of them.  *)
(*                                                                         *)
(* Collection: a warm investigation of three collectors, two of which wait *)
(* for the first and then compete for the only place, and a refreshing one *)
(* whose only collector a playbook asks for.  They share reads, and the    *)
(* cache has no room for all of them.                                      *)
(*                                                                         *)
(* Findings: a Deployment of three replicas with its Service, a lone pod   *)
(* of another namespace, and one object of each other kind.                *)
EXTENDS Collection

CONSTANTS Caps, Troubles, MaxTurns, MaxPods, None   \* of Findings

VARIABLES
  part,   \* whose behaviour it is
  inquiry, trouble, outset, met, turns, gathered, entries,  \* of Findings
  document, limit, length, arrived, phase, position,        \* of ListReader
  depth, quoted, escaped, key, stage, kept, total

MCApplicable == [i \in Investigations |-> IF i \in Refreshing THEN Targeted
                                                             ELSE Baseline]
MCRequires == [c \in Collectors |-> IF c = "logs" THEN {"pods"} ELSE {}]
MCOptional == [c \in Collectors |-> IF c = "events" THEN {"pods"} ELSE {}]
MCRequests == [c \in Collectors |->
                 CASE c = "logs" -> <<"list", "log">>
                   [] c = "events" -> <<"log">>
                   [] OTHER -> <<"list">>]
MCSize == [r \in Reads |-> IF r = "list" THEN 2 ELSE 1]

Thing(resource, ns, name, owner) ==
  [resource |-> resource, ns |-> ns, name |-> name, owner |-> owner]

Web     == Thing("deployments", "a", "web", None)
Web1    == Thing("pods", "a", "web-1", "web")
Web2    == Thing("pods", "a", "web-2", "web")
Web3    == Thing("pods", "a", "web-3", "web")
Solo    == Thing("pods", "b", "solo", None)
Db      == Thing("statefulsets", "a", "db", None)
Backoff == Thing("events", "a", "backoff", None)
WebSvc  == Thing("services", "a", "web", None)
KubeDns == Thing("services", "kube-system", "kube-dns", None)
Node1   == Thing("nodes", None, "node-1", None)
Data    == Thing("pvc", "a", "data", None)
Volume  == Thing("pv", None, "volume", None)

Everything == <<Web1, Web2, Web3, Solo, Web, Db, Backoff, WebSvc, KubeDns, Node1, Data, Volume>>
Outage == {Web, Web1, Web2, Web3}
Ills == {{}, Outage, {Web1, Web2}, {Solo}, {Db}, {Backoff, Data}, {WebSvc}, {KubeDns},
         {Node1}, {Volume}, {Web, Web1, Db, Solo}}

Asking(kind, name, ns) == [kind |-> kind, name |-> name, ns |-> ns]
Whole == Asking(None, None, None)
Scopes == {Whole, Asking(None, None, "a"), Asking("pod", "web-1", "a"),
           Asking("pod", "lost", "a"), Asking("pod", "web-1", None),
           Asking("deployment", "web", "a")}

Verdict == INSTANCE Findings WITH
  Things <- Everything, Dns <- KubeDns, Default <- "a", evidence <- gathered

ASSUME VerdictAssumption == Verdict!FindingsAssumption

verdictVars == <<inquiry, trouble, outset, met, turns, gathered, entries>>

(* Lists, with strings and objects before their items that look like them, *)
(* items that would end early or look like a list, and what is no list.    *)
Listed(before, items, after) ==
  [text |-> before \o <<"[">> \o
     FlattenSeq([i \in DOMAIN items |-> (IF i = 1 THEN <<>> ELSE <<",", " ">>) \o items[i]])
     \o <<"]">> \o after,
   list |-> TRUE, items |-> items]
Plain(text) == [text |-> text, list |-> FALSE, items |-> <<>>]

Key(k) == <<"q", k, "q", ":">>
Opening == <<"{">> \o Key("items")
Openings == {
  <<"{", "q", "x", "q", ":", "q", "items", "q", ",">> \o Key("items") \o <<" ">>,
  <<"{">> \o Key("x") \o <<"{">> \o Key("items")
    \o <<"[", "1", "]", "}", ",", " ", "q", "items", "q", " ", ":">>,
  <<"{", "q", "\\", "q", "items", "q", ":", "[", "]", ",">> \o Key("items")}
Numbers == << <<"1", "2">>, <<"2", ".", "1">> >>
Contents == {
  <<>>, << Opening \o <<"[", "]", "}">> >>,
  << <<"{">> \o Key("x") \o <<"q", "]", "\\", "q", "}", "q", "}">>,
     <<"[", "1", ",", "2", "]">>, <<"q", ",", "q">> >>}
MCDocuments ==
  {Listed(o, Numbers, <<"}">>) : o \in Openings}
    \cup {Listed(Opening, c, <<" ", ",">> \o Key("x") \o <<"{", "}", "}">>) : c \in Contents}
    \cup {Plain(<<"{">> \o Key("x") \o <<"q", "items", "q", "}">>),
          Plain(Opening \o <<"{", "}", "}">>),
          Plain(<<"{">> \o Key("x") \o Opening \o <<"[", "1", "]", "}", "}">>),
          Plain(<<"[", "q", "items", "q", ",", "[", "]", "]">>), Plain(<<" ">>)}

Listing == INSTANCE ListReader WITH Documents <- MCDocuments, Limits <- {0, 1}

ASSUME ListAssumption == Listing!ListReaderAssumption

listVars == <<document, limit, length, arrived, phase, position, depth, quoted, escaped,
              key, stage, kept, total>>

(* Who asks matters where all is refused, the cap where all is asked, and  *)
(* a name where what bears it may ail.                                     *)
MCInit ==
  /\ part \in {"collection", "verdict", "list"}
  /\ Init /\ Verdict!Init /\ Listing!Init
  /\ part # "list" => document = Plain(<<" ">>) /\ length = 0 /\ limit = 0
  /\ inquiry.caller => inquiry.ill = {} /\ inquiry.cap = 0
  /\ inquiry.cap # 0 => inquiry.scope = Whole
  /\ inquiry.scope.name # None => inquiry.ill \in {{}, Outage, {Solo}}
  /\ part # "verdict" =>
       /\ inquiry = [route |-> "agent", scope |-> Whole, ill |-> {}, cap |-> 0, caller |-> FALSE]
       /\ trouble = "none"

(* What comes and goes while a run reads, in a cluster that has little or  *)
(* much amiss; the rest is there throughout or never.                      *)
Passing == {"none", "denied", "partial", "dropped", "slow", "silent", "gone"}
Comes ==
  turns' # turns => /\ {trouble, trouble'} \subseteq Passing
                    /\ inquiry.ill \in {{}, Outage, {Db}} /\ inquiry.cap = 0

OfCollection(A) == part = "collection" /\ A /\ UNCHANGED <<part, verdictVars, listVars>>
OfVerdict == part = "verdict" /\ Verdict!Next /\ Comes /\ UNCHANGED <<part, vars, listVars>>
OfList    == part = "list" /\ Listing!Next /\ UNCHANGED <<part, vars, verdictVars>>

MCNext == OfCollection(Next) \/ OfVerdict \/ OfList

MCvars == <<part, vars, verdictVars, listVars>>

(* The fairness of the collection: its FairSpec.                           *)
MCSpec ==
  /\ MCInit /\ [][MCNext]_MCvars
  /\ WF_MCvars(OfCollection(Tick))
  /\ \A i \in Investigations : WF_MCvars(OfCollection(Progress(i)))

(* What is read of a list is what was sent, however it is cut.             *)
ListsAreWhole == part = "list" => Listing!ReadsWhatWasSent

(* The verdict on a cluster is earned, whichever way it goes.              *)
VerdictIsTrue ==
  part = "verdict" => Verdict!TypeOK /\ Verdict!HealthyWasLooked /\ Verdict!SeverityIsEarned

(* "Healthy" is not said on the strength of reads that brought nothing      *)
(* back, as investigation_service.py has it of its severity.               *)
HealthyIsSeen == part = "verdict" => Verdict!HealthyIsSeen

(* What is said of a cluster that could not be read is what happened, and  *)
(* what was read is the same by either route and filed where it belongs.   *)
ToldAsItIs ==
  part = "verdict" =>
    Verdict!ToldAsItIs /\ Verdict!RoutesAgree /\ Verdict!LogsAreTheirOwn
=============================================================================

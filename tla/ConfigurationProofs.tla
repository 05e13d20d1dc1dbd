------------------------- MODULE ConfigurationProofs -------------------------
(***************************************************************************)
(* Theorems about module Configuration, for every set of versions and      *)
(* images, every number of files and servers, and whichever merges raise:  *)
(*                                                                         *)
(*   TypeCorrect          the type invariant;                              *)
(*   ServersStayUsable    every server has an image for its default;       *)
(*   ListIsTrue           what is listed is what sessions are made from;   *)
(*   ServersAreFrozen     a server is not touched by later files.          *)
(*                                                                         *)
(* They rest on the image dicts being replaced, never changed: the heap    *)
(* only grows, and each dict in it has all versions of DEFAULT_CONFIG.     *)
(***************************************************************************)
EXTENDS Configuration, TLAPS

USE ConfigurationAssumption

ServerRecord == [registry : Nat, listed : Nat, version : Version]

IInv ==
    /\ TypeOK
    /\ Len(heap) <= loads + 1
    /\ \A i \in DOMAIN heap : DefaultVersions \subseteq DOMAIN heap[i]
    /\ sound => sandbox.version \in DOMAIN heap[sandbox.images]
    /\ servers \in Seq(ServerRecord)
    /\ \A i \in DOMAIN servers :
           /\ servers[i].listed = servers[i].registry
           /\ sound => servers[i].version \in DOMAIN heap[servers[i].registry]
    /\ sandbox \in [images : Nat, version : Version]

\* An image dict is a function from versions to images, and nothing else is.
LEMMA DictIs ==
    /\ \A d \in Dict : d \in [DOMAIN d -> Image] /\ DOMAIN d \subseteq Version
    /\ \A V \in SUBSET Version : [V -> Image] \subseteq Dict
  BY DEF Dict

\* {**old, **new} is an image dict with the versions of both.
LEMMA UpdateIsDict ==
    ASSUME NEW old \in Dict, NEW new \in Dict
    PROVE  /\ Update(old, new) \in Dict
           /\ DOMAIN Update(old, new) = DOMAIN old \cup DOMAIN new
  <1>1. DOMAIN Update(old, new) = DOMAIN old \cup DOMAIN new
    BY DEF Update
  <1>2. Update(old, new) \in [DOMAIN old \cup DOMAIN new -> Image]
    BY DictIs DEF Update
  <1>3. DOMAIN old \cup DOMAIN new \in SUBSET Version
    BY DictIs
  <1> QED
    BY <1>1, <1>2, <1>3, DictIs

\* DEFAULT_CONFIG satisfies the invariant.
LEMMA Initially == Init => IInv
  <1> SUFFICES ASSUME Init PROVE IInv
    OBVIOUS
  <1>1. [v \in DefaultVersions |-> BaseImage] \in Dict
    BY DictIs
  <1>2. heap \in Seq(Dict) /\ Len(heap) = 1 /\ DOMAIN heap[1] = DefaultVersions
    BY <1>1 DEF Init
  <1> QED
    BY <1>2 DEF Init, IInv, TypeOK, ServerRecord

\* What a merge leaves behind, whatever it merged: the dicts there were, and
\* at most one more.
LEMMA Merges ==
    ASSUME IInv, NEW d \in Dict, NEW v \in Version, Merge(d, v)
    PROVE  /\ heap' \in Seq(Dict) /\ Len(heap') \in {Len(heap), Len(heap) + 1}
           /\ \A i \in DOMAIN heap : i \in DOMAIN heap' /\ heap'[i] = heap[i]
           /\ \A i \in DOMAIN heap' : DefaultVersions \subseteq DOMAIN heap'[i]
           /\ sandbox' \in [images : Nat, version : Version]
           /\ sandbox'.version = v /\ sandbox'.images \in DOMAIN heap'
           /\ DOMAIN heap'[sandbox'.images] = DOMAIN heap[sandbox.images] \cup DOMAIN d
  <1>1. heap \in Seq(Dict) /\ sandbox.images \in DOMAIN heap
    BY DEF IInv, TypeOK
  <1>2. CASE DOMAIN d = {}
    BY <1>1, <1>2 DEF Merge, IInv
  <1>3. CASE DOMAIN d # {}
    <2> DEFINE new == Update(heap[sandbox.images], d)
    <2>1. new \in Dict /\ DOMAIN new = DOMAIN heap[sandbox.images] \cup DOMAIN d
      <3>1. heap[sandbox.images] \in Dict
        BY <1>1
      <3> QED
        BY <3>1, UpdateIsDict
    <2>2. heap' = Append(heap, new) /\ sandbox' = [images |-> Len(heap) + 1, version |-> v]
      BY <1>3 DEF Merge
    <2>3. DefaultVersions \subseteq DOMAIN new
      BY <1>1, <2>1 DEF IInv
    <2> HIDE DEF new
    <2> QED
      BY <1>1, <2>1, <2>2, <2>3 DEF IInv
  <1> QED
    BY <1>2, <1>3

\* A file that is merged keeps the invariant.
LEMMA FileKept ==
    ASSUME IInv, NEW f \in Document, Loads(f), NEW v \in Version, Merge(f.images, v),
           v \in {sandbox.version, WithDefault(f)}
    PROVE  IInv'
  <1>1. f.images \in Dict /\ f.version \in Version \cup {None}
    BY DEF Document
  <1>2. TypeOK'
    BY <1>1, Merges DEF Loads, IInv, TypeOK
  <1>3. sound' => sandbox'.version \in DOMAIN heap'[sandbox'.images]
    <2>1. DefaultVersions \subseteq DOMAIN heap[sandbox.images]
      BY DEF IInv, TypeOK
    <2>2. /\ sandbox'.version = v
          /\ DOMAIN heap'[sandbox'.images] = DOMAIN heap[sandbox.images] \cup DOMAIN f.images
      BY <1>1, Merges
    <2>3. sound' => sound /\ f.version \in {None} \cup DefaultVersions \cup DOMAIN f.images
      BY DEF Loads
    <2>4. CASE v = sandbox.version
      BY <2>2, <2>3, <2>4 DEF IInv
    <2>5. CASE v = WithDefault(f) /\ f.version # None
      BY <2>1, <2>2, <2>3, <2>5 DEF WithDefault
    <2> QED
      BY <2>4, <2>5 DEF WithDefault
  <1>4. \A i \in DOMAIN servers' :
            /\ servers'[i].listed = servers'[i].registry
            /\ sound' => servers'[i].version \in DOMAIN heap'[servers'[i].registry]
    BY <1>1, Merges DEF Loads, IInv, TypeOK
  <1> QED
    BY <1>1, <1>2, <1>3, <1>4, Merges DEF Loads, IInv, TypeOK

\* Every step keeps it.
LEMMA Kept == IInv /\ [Next]_vars => IInv'
  <1> SUFFICES ASSUME IInv, [Next]_vars
               PROVE  IInv'
    OBVIOUS
  <1>v. sandbox.version \in Version
    BY DEF IInv
  <1>1. ASSUME NEW f \in Document, LoadsNothing(f)
        PROVE  IInv'
    BY <1>1 DEF LoadsNothing, Loads, IInv, TypeOK
  <1>2. ASSUME NEW f \in Document, LoadsHalf(f)
        PROVE  IInv'
    BY <1>v, <1>2, FileKept DEF LoadsHalf
  <1>3. ASSUME NEW f \in Document, LoadsAll(f)
        PROVE  IInv'
    <2>1. WithDefault(f) \in Version
      BY <1>v DEF WithDefault, Document
    <2> QED
      BY <1>3, <2>1, FileKept DEF LoadsAll
  <1>4. CASE CreateMcpApp
    <2> DEFINE new == [registry |-> sandbox.images, listed |-> sandbox.images,
                       version |-> sandbox.version]
    <2>1. new \in ServerRecord /\ sandbox.images \in DOMAIN heap
      BY DEF IInv, TypeOK, ServerRecord
    <2>2. servers' = Append(servers, new) /\ UNCHANGED <<heap, sandbox, loads, sound>>
      BY <1>4 DEF CreateMcpApp
    <2>3. servers' \in Seq(ServerRecord)
      BY <2>1, <2>2 DEF IInv
    <2>4. \A i \in DOMAIN servers' :
              (i \in DOMAIN servers /\ servers'[i] = servers[i]) \/ servers'[i] = new
      BY <2>2 DEF IInv
    <2>5. \A i \in DOMAIN servers' :
              /\ servers'[i].listed = servers'[i].registry
              /\ {servers'[i].registry, servers'[i].listed} \subseteq DOMAIN heap
              /\ sound => servers'[i].version \in DOMAIN heap[servers'[i].registry]
      BY <2>1, <2>4 DEF IInv, TypeOK
    <2> HIDE DEF new
    <2> QED
      BY <2>2, <2>3, <2>5 DEF IInv, TypeOK
  <1>5. CASE UNCHANGED vars
    BY <1>5 DEF vars, IInv, TypeOK
  <1> QED
    BY <1>1, <1>2, <1>3, <1>4, <1>5 DEF Next

\* The invariant always holds.
LEMMA Invariance == Spec => []IInv
  BY Initially, Kept, PTL DEF Spec

(***************************************************************************)
(* The theorems                                                            *)
(***************************************************************************)

\* Every reference to an image dict is to one that was made.
THEOREM TypeCorrect == Spec => []TypeOK
  <1>1. IInv => TypeOK
    BY DEF IInv
  <1> QED
    BY <1>1, Invariance, PTL

\* However many files are loaded into the one "sandbox" dict, and wherever
\* their merges raise, a server that is built has an image for its default
\* version and for every version of DEFAULT_CONFIG.
THEOREM ServersStayUsable == Spec => []AlwaysUsable
  <1>1. IInv => AlwaysUsable
    <2> SUFFICES ASSUME IInv, NEW i \in DOMAIN servers
                 PROVE  /\ sound => ResolveImage(servers[i], servers[i].version) # None
                        /\ \A v \in DefaultVersions : ResolveImage(servers[i], v) # None
      BY DEF AlwaysUsable
    <2>1. servers[i].registry \in DOMAIN heap /\ heap \in Seq(Dict)
      BY DEF IInv, TypeOK
    <2>2. \A v \in DOMAIN heap[servers[i].registry] : heap[servers[i].registry][v] # None
      BY <2>1, DictIs
    <2> QED
      BY <2>1, <2>2 DEF ResolveImage, IInv
  <1> QED
    BY <1>1, Invariance, PTL

\* list_python_versions lists what create_session has.
THEOREM ListIsTrue == Spec => []ListedAreServed
  <1>1. IInv => ListedAreServed
    BY DEF IInv, ListedAreServed, ResolveImage, ListPythonVersions
  <1> QED
    BY <1>1, Invariance, PTL

\* A file that is loaded later changes the dict that a server's configuration
\* was, and nothing of what the server offers.
THEOREM ServersAreFrozen == Spec => ServersFrozen
  <1>1. IInv /\ [Next]_vars =>
            [\A i \in DOMAIN servers : \A v \in Version :
                 ResolveImage(servers[i], v)' = ResolveImage(servers[i], v)]_vars
    <2> SUFFICES ASSUME IInv, Next, NEW i \in DOMAIN servers, NEW v \in Version
                 PROVE  ResolveImage(servers[i], v)' = ResolveImage(servers[i], v)
      OBVIOUS
    <2>0. servers[i].registry \in DOMAIN heap /\ sandbox.version \in Version
      BY DEF IInv, TypeOK
    <2>1. ASSUME NEW f \in Document, LoadsNothing(f)
          PROVE  heap' = heap /\ servers' = servers
      BY <2>1 DEF LoadsNothing, Loads
    <2>2. ASSUME NEW f \in Document, LoadsHalf(f) \/ LoadsAll(f)
          PROVE  servers' = servers /\ heap'[servers[i].registry] = heap[servers[i].registry]
      <3>1. f.images \in Dict /\ WithDefault(f) \in Version
        BY <2>0 DEF Document, WithDefault
      <3> QED
        BY <2>0, <2>2, <3>1, Merges DEF LoadsHalf, LoadsAll, Loads
    <2>3. CASE CreateMcpApp
      BY <2>3 DEF CreateMcpApp, ResolveImage, IInv
    <2> QED
      BY <2>1, <2>2, <2>3 DEF Next, ResolveImage
  <1> QED
    BY <1>1, Invariance, PTL DEF Spec, ServersFrozen
=============================================================================

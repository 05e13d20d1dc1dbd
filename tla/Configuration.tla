--------------------------- MODULE Configuration ---------------------------
(***************************************************************************)
(* From config.yaml to a server (src/main.py): load_config merges a file   *)
(* into DEFAULT_CONFIG, create_mcp_app builds a SessionManager and the MCP *)
(* tools on what comes of it.  dict(DEFAULT_CONFIG) copies one level only, *)
(* so that every configuration a process ever loads has one and the same   *)
(* "sandbox" dict, and a merge that raises half way leaves in it what it   *)
(* had merged by then.  The model keeps that dict, and the image dicts it  *)
(* and the servers refer to, as objects with an identity.                  *)
(***************************************************************************)
EXTENDS Naturals, Sequences

CONSTANTS
    Version, Image,  \* what a file may name
    DefaultVersions, \* the versions DEFAULT_CONFIG has an image for
    BaseImage,       \* that image
    DefaultVersion,  \* its python_version
    MaxLoads,        \* bound: configurations that are loaded
    MaxServers       \* bound: servers that are built

None == "none"

ASSUME ConfigurationAssumption ==
    /\ DefaultVersions \subseteq Version /\ BaseImage \in Image
    /\ DefaultVersion \in DefaultVersions /\ None \notin Image
    /\ MaxLoads \in Nat /\ MaxServers \in Nat

Dict == UNION {[V -> Image] : V \in SUBSET Version}

\* A YAML document: its images (empty if it has none) and whether they are a
\* mapping; the python_version of its defaults, if any, and whether those are.
\* The paths and the timeout are only passed on and are left out.
Document == [images: Dict, imagesOk: BOOLEAN, version: Version \cup {None}, defaultsOk: BOOLEAN]

VARIABLES
    heap,       \* the image dicts that were ever made, by identity
    sandbox,    \* DEFAULT_CONFIG["sandbox"]: images, by identity, and python_version
    servers,    \* the servers built: the SessionManager's image_registry, the
                \* MCP handler's, both by identity, and the default version
    loads,      \* configurations loaded
    sound       \* history: every document gave an image to its python_version

vars == <<heap, sandbox, servers, loads, sound>>

Init ==
    /\ heap = <<[v \in DefaultVersions |-> BaseImage]>>
    /\ sandbox = [images |-> 1, version |-> DefaultVersion]
    /\ servers = <<>> /\ loads = 0 /\ sound = TRUE

(***************************************************************************)
(* load_config and _merge_config                                           *)
(***************************************************************************)

\* Python's {**old, **new}.
Update(old, new) ==
    [v \in DOMAIN old \cup DOMAIN new |-> IF v \in DOMAIN new THEN new[v] ELSE old[v]]

\* A mutant of Merge: the user's images are put into the dict at hand.
Merge_InPlace(d, v) ==
    /\ heap' = [heap EXCEPT ![sandbox.images] = Update(@, d)]
    /\ sandbox' = [sandbox EXCEPT !.version = v]

\* {**default images, **images} is a new dict, the defaults likewise, but both
\* are kept in the "sandbox" that all configurations share.
Merge(d, v) ==
    IF DOMAIN d = {} THEN heap' = heap /\ sandbox' = [sandbox EXCEPT !.version = v]
    ELSE /\ heap' = Append(heap, Update(heap[sandbox.images], d))
         /\ sandbox' = [images |-> Len(heap) + 1, version |-> v]

Loads(f) ==
    /\ loads < MaxLoads /\ loads' = loads + 1
    /\ sound' = (sound /\ f.version \in {None} \cup DefaultVersions \cup DOMAIN f.images)
    /\ UNCHANGED servers

\* A mutant of WithDefault: the file's defaults replace all others.
WithDefault_Replaces(f) == f.version

WithDefault(f) == IF f.version = None THEN sandbox.version ELSE f.version

\* A mutant of LoadsNothing: the defaults are merged before the images.
LoadsNothing_DefaultsFirst(f) ==
    /\ Loads(f) /\ ~f.imagesOk
    /\ Merge(<<>>, IF f.defaultsOk THEN WithDefault(f) ELSE sandbox.version)

\* No file, an empty one, no YAML, or images that are no mapping: the merge has
\* done nothing yet when it raises, and the defaults are returned.
LoadsNothing(f) ==
    /\ Loads(f) /\ ~f.imagesOk
    /\ UNCHANGED <<heap, sandbox>>

\* The defaults are no mapping: the images are merged by then, and stay.
LoadsHalf(f) ==
    /\ Loads(f) /\ f.imagesOk /\ ~f.defaultsOk
    /\ Merge(f.images, sandbox.version)

LoadsAll(f) ==
    /\ Loads(f) /\ f.imagesOk /\ f.defaultsOk
    /\ Merge(f.images, WithDefault(f))

(***************************************************************************)
(* create_mcp_app                                                          *)
(***************************************************************************)

\* A mutant of CreateMcpApp: the tools list the images of DEFAULT_CONFIG.
CreateMcpApp_ListsDefaults ==
    /\ Len(servers) < MaxServers
    /\ servers' = Append(servers, [registry |-> sandbox.images, listed |-> 1,
                                   version |-> sandbox.version])
    /\ UNCHANGED <<heap, sandbox, loads, sound>>

\* Whatever configuration it is called with, its "sandbox" is the shared one;
\* the SessionManager and the MCP handler refer to the same image dict.
CreateMcpApp ==
    /\ Len(servers) < MaxServers
    /\ servers' = Append(servers, [registry |-> sandbox.images, listed |-> sandbox.images,
                                   version |-> sandbox.version])
    /\ UNCHANGED <<heap, sandbox, loads, sound>>

Next ==
    \/ \E f \in Document : LoadsNothing(f) \/ LoadsHalf(f) \/ LoadsAll(f)
    \/ CreateMcpApp

Spec == Init /\ [][Next]_vars

(***************************************************************************)
(* Properties                                                              *)
(***************************************************************************)

\* SessionManager._resolve_image: the image of version v, None if it raises.
ResolveImage(s, v) == IF v \in DOMAIN heap[s.registry] THEN heap[s.registry][v] ELSE None

\* MCPToolHandler.list_python_versions
ListPythonVersions(s) == heap[s.listed]

\* The types; every image dict is one that was made.
TypeOK ==
    /\ heap \in Seq(Dict) /\ Len(heap) \in 1..(MaxLoads + 1)
    /\ sandbox.images \in DOMAIN heap /\ sandbox.version \in Version
    /\ loads \in 0..MaxLoads /\ sound \in BOOLEAN
    /\ \A i \in DOMAIN servers :
           {servers[i].registry, servers[i].listed} \subseteq DOMAIN heap

\* create_session has an image for its default version and for every version
\* of DEFAULT_CONFIG, whatever was loaded before the server was built and
\* whichever merge raised at what point, provided every file named a default
\* version that exists.
AlwaysUsable ==
    \A i \in DOMAIN servers :
        /\ sound => ResolveImage(servers[i], servers[i].version) # None
        /\ \A v \in DefaultVersions : ResolveImage(servers[i], v) # None

\* list_python_versions tells the truth: create_session has exactly the listed
\* versions, and the images listed for them.
ListedAreServed ==
    \A i \in DOMAIN servers :
        \A v \in Version :
            ResolveImage(servers[i], v) =
                IF v \in DOMAIN ListPythonVersions(servers[i])
                THEN ListPythonVersions(servers[i])[v] ELSE None

\* What a server offers is settled when it is built: no later load_config,
\* although it changes the very dict the server's configuration was, reaches it.
ServersFrozen ==
    [][\A i \in DOMAIN servers : \A v \in Version :
           ResolveImage(servers[i], v)' = ResolveImage(servers[i], v)]_vars
=============================================================================

---------------------------- MODULE Configuration ----------------------------
(***************************************************************************)
(* The runtime configuration of a session: how plcontainer_configuration.xml *)
(* becomes runtime_conf_table (plc_configuration.c), when it is read again,*)
(* and how a call resolves the runtime its function names, checks the      *)
(* user's privilege and asks Docker for a container (plcontainer.c,        *)
(* containers.c, plc_docker_api.c).                                        *)
(*                                                                         *)
(* A file is [root, backends, runtimes]: its root element's name and the   *)
(* <backend> and <runtime> elements in order.  An element is [tag, p, c],  *)
(* its attributes p, a function from the names of those present, and its   *)
(* content c.  The source of a function is a sequence of tokens.           *)
(***************************************************************************)
EXTENDS Integers, Sequences, FiniteSets, SequencesExt

CONSTANTS
    Files,                  \* contents the file may have
    Unreadable,             \* the content that is no XML, or no file at all
    Sources,                \* sources of the functions that are called
    Users,
    MemberOf,               \* [Users -> sets of role names]
    RUNTIME_ID_MAX_LENGTH,
    DefaultTag              \* "docker", or "process" if plcontainer.backend_type says so

ASSUME ConfigurationAssumption ==
    /\ Unreadable \in Files
    /\ RUNTIME_ID_MAX_LENGTH \in Nat \ {0}
    /\ DefaultTag \in {"docker", "process"}

VARIABLES
    file,        \* the file on disk
    table,       \* runtime_conf_table
    backends,    \* runtime_backend_table, nruntime_backend_table and its allocation
    containers,  \* what each container of the session was created with, by runtime
    read,        \* observer: the content last read, NoFile before
    last         \* observer: the last call, if nothing else happened since

vars == <<file, table, backends, containers, read, last>>

NoTable == << >>
NoFile == [root |-> "none"]
NoCall == [outcome |-> "none"]
Empty == [x \in {} |-> x]

Has(e, name) == name \in DOMAIN e.p
Elements(node, tag) == SelectSeq(node, LAMBDA e : e.tag = tag)

-----------------------------------------------------------------------------
(* Backends *)

NoBackends == [n |-> 0, size |-> 0, items |-> <<>>, overrun |-> FALSE]

\* xml_read_backend: the fields are single elements, address and port required.
Single(e) ==
    IF e.p.type = "remote_docker"
    THEN {"add_segment_index", "address", "port", "username", "password"} ELSE {"address"}
BackendOK(e) ==
    /\ Has(e, "name") /\ Has(e, "type")
    /\ e.p.type \in {"docker", "local_docker", "remote_docker"}
    /\ \A t \in Single(e) : Len(Elements(e.c, t)) <= 1
    /\ Elements(e.c, "address") # <<>>
    /\ e.p.type = "remote_docker" => Elements(e.c, "port") # <<>>
xml_read_backend(e) ==
    [name |-> e.p.name, tag |-> IF e.p.type = "remote_docker" THEN "remote" ELSE "docker"]

\* Item i of an array whose *N is taken both for its size and for a count: the
\* size is doubled when N <= i, and every item adds one to N.
Room(b, i) ==
    IF b.n > i THEN b
    ELSE LET size == 2 * (IF b.n = 0 THEN 1 ELSE b.n)
         IN  [b EXCEPT !.size = size, !.n = size]
__XML_READ_OBJECT(b, i, e) ==
    LET r == Room(b, i)
    IN  IF ~BackendOK(e) THEN [r EXCEPT !.overrun = @ \/ i >= r.size]
        ELSE [r EXCEPT !.n = @ + 1, !.items = Append(@, xml_read_backend(e)),
                       !.overrun = @ \/ i >= r.size]

\* XML_READ_CONTENT up to the first backend that fails.
ReadBackends(b, nodes) ==
    FoldLeft(LAMBDA acc, i : IF acc.err THEN acc
                ELSE [b |-> __XML_READ_OBJECT(acc.b, i - 1, nodes[i]),
                      err |-> ~BackendOK(nodes[i])],
             [b |-> b, err |-> FALSE], [i \in 1..Len(nodes) |-> i])

\* A local Docker named "default" goes in front of what the file declares.
parse_runtime_backend_configuration(b, nodes) ==
    LET got == ReadBackends(b, nodes)
    IN  IF got.err THEN got
        ELSE [err |-> FALSE,
              b |-> [n |-> Len(nodes) + 1, size |-> Len(nodes) + 1,
                     items |-> <<[name |-> "default", tag |-> DefaultTag]>> \o got.b.items,
                     overrun |-> got.b.overrun]]

\* The first of that name for <backend name="...">, the last "default" for a
\* runtime without one.
Named(b, name) == {i \in 1..Len(b.items) : b.items[i].name = name}
take_plcbackend_byname(b, name) ==
    b.items[CHOOSE i \in Named(b, name) : \A j \in Named(b, name) : i <= j]
\* Variant: the first one for that, too.
FirstDefault(b) == take_plcbackend_byname(b, "default")
DefaultBackend(b) ==
    b.items[CHOOSE i \in Named(b, "default") : \A j \in Named(b, "default") : i >= j]

-----------------------------------------------------------------------------
(* A runtime *)

NoBackend == [name |-> "none", tag |-> "none"]
DefaultEntry ==
    [memoryMb |-> 1024, cpuShare |-> 1024, useContainerLogging |-> FALSE,
     enableNetwork |-> FALSE, resgroup |-> "none", useUserControl |-> FALSE,
     roles |-> {}, backend |-> NoBackend, dirs |-> <<>>, devices |-> <<>>]

SettingNames == {"use_container_logging", "memory_mb", "cpu_share", "enable_network",
                 "resource_group_id", "roles"}
SettingOK(e) ==
    /\ DOMAIN e.p \cap SettingNames # {}
    /\ Has(e, "use_container_logging") => e.p.use_container_logging \in {"yes", "no"}
    /\ Has(e, "memory_mb") => e.p.memory_mb > 0
    /\ Has(e, "cpu_share") => e.p.cpu_share > 0
    /\ Has(e, "enable_network") => e.p.enable_network \in {"yes", "no"}
    /\ Has(e, "resource_group_id") => e.p.resource_group_id = "cgroup"
    /\ Has(e, "roles") => e.p.roles # {}

\* Variant: only a list of roles asks for the check of the user.
RolesOnly(entry, e) ==
    LET attr(name, old) == IF Has(e, name) THEN e.p[name] ELSE old
    IN  [entry EXCEPT !.memoryMb = attr("memory_mb", @),
                      !.enableNetwork = IF Has(e, "enable_network")
                                        THEN e.p.enable_network = "yes" ELSE @,
                      !.roles = attr("roles", @),
                      !.useUserControl = @ \/ Has(e, "roles")]
Setting(entry, e) ==
    LET attr(name, old) == IF Has(e, name) THEN e.p[name] ELSE old
        flag(name, old) == IF Has(e, name) THEN e.p[name] = "yes" ELSE old
    IN  [entry EXCEPT !.useContainerLogging = flag("use_container_logging", @),
                      !.memoryMb = attr("memory_mb", @),
                      !.cpuShare = attr("cpu_share", @),
                      !.enableNetwork = flag("enable_network", @),
                      !.resgroup = attr("resource_group_id", @),
                      !.roles = attr("roles", @),
                      !.useUserControl = \/ @
                                         \/ flag("enable_network", FALSE)
                                         \/ Has(e, "roles")]

\* The second pass over the elements: one at a time, after the ones before it.
ElementOK(b, entry, e) ==
    CASE e.tag \in {"id", "image", "command", "shared_directory"} -> TRUE
      [] e.tag = "setting" -> SettingOK(e)
      [] e.tag = "device_request" -> Has(e, "type")
      [] e.tag = "backend" ->
            /\ Has(e, "name")
            /\ Named(b, e.p.name) # {}
            /\ ~(~entry.enableNetwork /\ take_plcbackend_byname(b, e.p.name).tag = "remote")
      [] OTHER -> FALSE
Element(b, acc, e) ==
    IF ~acc.ok \/ ~ElementOK(b, acc.entry, e) THEN [acc EXCEPT !.ok = FALSE]
    ELSE CASE e.tag = "setting" -> [acc EXCEPT !.entry = Setting(@, e)]
           [] e.tag = "backend" ->
                [acc EXCEPT !.entry.backend = take_plcbackend_byname(b, e.p.name)]
           [] OTHER -> acc

DirsOK(dirs) ==
    /\ \A i \in 1..Len(dirs) : /\ {"host", "container", "access"} \subseteq DOMAIN dirs[i].p
                               /\ dirs[i].p.access \in {"ro", "rw"}
    /\ \A i, j \in 1..Len(dirs) : dirs[i].p.container = dirs[j].p.container => i = j

\* A <device_request> without a <deviceid>, or with all, asks for every device.
DeviceRequest(e) ==
    LET ids == Elements(e.c, "deviceid")
    IN  [ids |-> IF Has(e, "all") THEN <<>> ELSE [i \in 1..Len(ids) |-> ids[i].p.value],
         all |-> Has(e, "all") \/ ids = <<>>,
         driver |-> Elements(e.c, "driver") # <<>>]

\* The entry of a runtime whose id is not in the table yet.  The name of a
\* <backend> is freed and still pointed to: where the last element is one and
\* the counts are wrong after it, PG_CATCH frees it again (twice).
ParsedEntry(b, node) ==
    LET acc == FoldLeft(LAMBDA a, e : Element(b, a, e), [ok |-> TRUE, entry |-> DefaultEntry],
                        node)
        dirs == Elements(node, "shared_directory")
        devices == Elements(node, "device_request")
        once == Len(Elements(node, "image")) = 1 /\ Len(Elements(node, "command")) = 1
    IN  [ok |-> acc.ok /\ once /\ DirsOK(dirs),
         twice |-> acc.ok /\ ~once /\ Last(node).tag = "backend",
         entry |-> [acc.entry EXCEPT
                      !.dirs = [i \in 1..Len(dirs) |-> dirs[i].p],
                      !.devices = [i \in 1..Len(devices) |-> DeviceRequest(devices[i])],
                      !.useUserControl = @ \/ devices # <<>>,
                      !.backend = IF @ = NoBackend THEN DefaultBackend(b) ELSE @]]

Without(t, id) == [x \in DOMAIN t \ {id} |-> t[x]]
\* What the hash table compares: no more than its keysize - 1 characters.
Key(id) == SubSeq(id, 1, IF Len(id) < RUNTIME_ID_MAX_LENGTH THEN Len(id)
                         ELSE RUNTIME_ID_MAX_LENGTH - 1)
With(t, id, entry) == [x \in DOMAIN t \cup {id} |-> IF x = id THEN entry ELSE t[x]]

\* Variant: a runtime that fails stays in the table as far as it was read.
KeepsBroken(t, b, node) ==
    LET ids == Elements(node, "id")
        id == ids[1].p.value
    IN  IF Len(ids) # 1 \/ Len(id) > RUNTIME_ID_MAX_LENGTH - 1 \/ id \in DOMAIN t
        THEN [t |-> t, err |-> TRUE, twice |-> FALSE]
        ELSE [t |-> With(t, id, ParsedEntry(b, node).entry), err |-> ~ParsedEntry(b, node).ok,
              twice |-> FALSE]
\* Whatever fails after an id was seen removes the entry of that id: of an id
\* that is too long, the entry of the one it begins with.
parse_runtime_configuration(t, b, node) ==
    LET ids == Elements(node, "id")
        id == ids[1].p.value
        got == ParsedEntry(b, node)
    IN  IF ids = <<>> THEN [t |-> t, err |-> TRUE, twice |-> FALSE]
        ELSE IF \/ Len(ids) > 1
                \/ Len(id) > RUNTIME_ID_MAX_LENGTH - 1
                \/ id \in DOMAIN t
        THEN [t |-> Without(t, Key(id)), err |-> TRUE, twice |-> FALSE]
        ELSE IF ~got.ok THEN [t |-> Without(t, id), err |-> TRUE, twice |-> got.twice]
        ELSE [t |-> With(t, id, got.entry), err |-> FALSE, twice |-> FALSE]

get_runtime_configurations(f, b) ==
    LET base == parse_runtime_backend_configuration(b, f.backends)
        all == FoldLeft(LAMBDA acc, node :
                            IF acc.err THEN acc
                            ELSE parse_runtime_configuration(acc.t, base.b, node),
                        [t |-> Empty, err |-> FALSE, twice |-> FALSE], f.runtimes)
        fails(backs) == [t |-> Empty, b |-> backs, err |-> TRUE, twice |-> FALSE]
    IN  CASE f = Unreadable -> fails(b)
          [] f # Unreadable /\ f.root # "configuration" -> fails(b)
          [] f # Unreadable /\ f.root = "configuration" /\ base.err -> fails(base.b)
          [] OTHER -> [t |-> all.t, b |-> base.b, err |-> all.err \/ DOMAIN all.t = {},
                       twice |-> all.twice]

\* The old tables are freed first: nruntime_backend_table items of them.
init_runtime_configurations(b) ==
    [NoBackends EXCEPT !.overrun = b.overrun \/ b.n > b.size]

plc_refresh_container_config(f) ==
    get_runtime_configurations(f, init_runtime_configurations(backends))

-----------------------------------------------------------------------------
(* The runtime a function names *)

Blank == {"blank"}
Space == {"blank", "nl"}
Skip(s, i, set) == CHOOSE j \in i..(Len(s) + 1) :
                        /\ \A k \in i..(j - 1) : s[k] \in set
                        /\ j = Len(s) + 1 \/ s[j] \notin set
At(s, i, token) == i <= Len(s) /\ s[i] = token

check_runtime_id(id) ==
    /\ id # <<>>
    /\ \A i \in 1..Len(id) : id[i] \in {"a", "b"} \/ (id[i] = "-" /\ i > 1)

\* "# container: id" up to the end of the line; BadMeta if it is anything else.
BadMeta == <<"bad">>
parse_container_meta(s) ==
    LET hash == Skip(s, 1, Space)
        word == Skip(s, hash + 1, Blank)
        colon == Skip(s, word + 1, Blank)
        first == Skip(s, colon + 1, Blank)
        nl == CHOOSE j \in first..(Len(s) + 1) :
                    /\ \A k \in first..(j - 1) : s[k] # "nl"
                    /\ j = Len(s) + 1 \/ s[j] = "nl"
        end == CHOOSE j \in (first - 1)..(nl - 1) :
                    /\ \A k \in (j + 1)..(nl - 1) : s[k] \in Blank
                    /\ j = first - 1 \/ s[j] \notin Blank
        id == SubSeq(s, first, end)
    IN  IF ~At(s, hash, "#") THEN BadMeta
        ELSE IF ~At(s, word, "container") THEN BadMeta
        ELSE IF ~At(s, colon, ":") THEN BadMeta
        ELSE IF nl > Len(s) \/ Len(id) + 1 > RUNTIME_ID_MAX_LENGTH \/ ~check_runtime_id(id)
        THEN BadMeta ELSE id

plc_check_user_privilege(user, roles) == roles \cap MemberOf[user] # {}

-----------------------------------------------------------------------------
(* The container of a runtime *)

runtime_conf_get_runtime_connection_info(backend) ==
    IF backend.tag = "remote" THEN "tcp" ELSE "uds"

\* Bind mounts, with the directory of the socket last.
generate_sharing_options(entry, connection) ==
    entry.dirs \o (IF connection = "uds" THEN <<"socket directory">> ELSE <<>>)

\* _count is set for the first request only; Docker takes -1 for all devices.
_req_serialize_devicerequest(entry, i) ==
    LET req == entry.devices[i]
    IN  [count |-> IF i = 1 /\ req.all THEN -1 ELSE 0, ids |-> req.ids]

\* The body of POST /containers/create.  A <driver> is written without quotes:
\* the body is no JSON, and Docker refuses it.
plc_docker_create_container(entry) ==
    LET connection == runtime_conf_get_runtime_connection_info(entry.backend)
    IN  [valid |-> \A i \in 1..Len(entry.devices) : ~entry.devices[i].driver,
         NetworkDisabled |-> ~entry.enableNetwork,
         ExposedPorts |-> connection = "tcp",
         Binds |-> generate_sharing_options(entry, connection),
         CgroupParent |-> IF entry.backend.tag = "docker" THEN entry.resgroup ELSE "none",
         Memory |-> entry.memoryMb * 1024 * 1024,
         CpuShares |-> entry.cpuShare,
         DeviceRequests |-> [i \in 1..Len(entry.devices) |->
                                _req_serialize_devicerequest(entry, i)]]

-----------------------------------------------------------------------------
(* Actions *)

Init ==
    /\ file \in Files
    /\ table = NoTable
    /\ backends = NoBackends
    /\ containers = Empty
    /\ read = NoFile
    /\ last = NoCall

\* plcontainer runtime-add, -replace, -delete, or an editor.
EditFile(f) ==
    /\ file' = f
    /\ last' = NoCall
    /\ UNCHANGED <<table, backends, containers, read>>

ReadFile(got) ==
    /\ table' = <<"table", got.t>>
    /\ backends' = got.b
    /\ read' = file

\* The backend process aborts, and another session starts.
SessionDies ==
    /\ table' = NoTable
    /\ backends' = NoBackends
    /\ containers' = Empty
    /\ read' = NoFile
    /\ last' = NoCall
    /\ UNCHANGED file

\* Memory that is freed twice ends the session, or is not noticed.
Refresh(got) ==
    \/ /\ ReadFile(got)
       /\ last' = NoCall
       /\ UNCHANGED <<file, containers>>
    \/ /\ got.twice
       /\ SessionDies

refresh_plcontainer_config == Refresh(plc_refresh_container_config(file))

show_plcontainer_config ==
    /\ table = NoTable
    /\ Refresh(plc_refresh_container_config(file))

\* plcontainer_get_result up to the container: the file is only read when the
\* table is missing or empty.  Outcomes in the order of the tests; a backend may
\* also fail to start for reasons of its own.
MustRead == table # NoTable => DOMAIN table[2] = {}
Resolve(user, id, got) ==
    CASE id = BadMeta -> {"no runtime"}
      [] id # BadMeta /\ MustRead /\ got.err -> {"no configuration"}
      [] id # BadMeta /\ ~(MustRead /\ got.err) /\ id \notin DOMAIN got.t -> {"not defined"}
      [] OTHER ->
            IF got.t[id].useUserControl /\ ~plc_check_user_privilege(user, got.t[id].roles)
            THEN {"not allowed"}
            ELSE IF id \in DOMAIN containers THEN {"used"}
            ELSE IF \/ got.t[id].backend.tag = "process"
                    \/ plc_docker_create_container(got.t[id]).valid
            THEN {"created", "not created"} ELSE {"not created"}

\* The containers after a call: start_backend runs under DeleteBackendsWhenError,
\* and when it fails plcontainer_call_handler deletes them all.
ContainersAfter(outcome, id, got) ==
    CASE outcome = "created" -> With(containers, id, plc_docker_create_container(got.t[id]))
      [] outcome = "not created" -> Empty
      [] OTHER -> containers

plcontainer_get_result(user, source) ==
    LET id == parse_container_meta(source)
        reads == MustRead /\ id # BadMeta
        got == IF MustRead THEN plc_refresh_container_config(file)
               ELSE [t |-> table[2], b |-> backends, err |-> FALSE, twice |-> FALSE]
    IN  \/ \E outcome \in Resolve(user, id, got) :
              /\ IF reads THEN ReadFile(got) ELSE UNCHANGED <<table, backends, read>>
              /\ last' = [outcome |-> outcome, user |-> user, id |-> id]
              /\ containers' = ContainersAfter(outcome, id, got)
              /\ UNCHANGED file
        \/ /\ reads /\ got.twice
           /\ SessionDies

\* delete_containers, after an error once the container runs, or a cancel.
delete_containers ==
    /\ containers' = Empty
    /\ last' = NoCall
    /\ UNCHANGED <<file, table, backends, read>>

Next ==
    \/ \E f \in Files : EditFile(f)
    \/ refresh_plcontainer_config
    \/ show_plcontainer_config
    \/ \E user \in Users, source \in Sources : plcontainer_get_result(user, source)
    \/ delete_containers

Spec == Init /\ [][Next]_vars

-----------------------------------------------------------------------------
(* Properties, stated on the file as it is written *)

\* The last word of a runtime's settings on an attribute.
Attr(node, name, default) ==
    LET with == SelectSeq(node, LAMBDA e : e.tag = "setting" /\ Has(e, name))
    IN  IF with = <<>> THEN default ELSE with[Len(with)].p[name]

\* The types of backend a runtime may mean: of those the file declares under the
\* name it gives, or else under "default"; the local Docker that is always there
\* has that name, too, unless a runtime gives no name and the file declares one.
BackendTypes(f, node) ==
    LET named == Elements(node, "backend")
        name == IF named = <<>> THEN "default" ELSE Last(named).p.name
        declared == {e.p.type : e \in {d \in Range(f.backends) : d.p.name = name}}
    IN  IF name = "default" /\ (named # <<>> \/ declared = {})
        THEN declared \cup {"docker"} ELSE declared

\* Well-formed, whatever else the file holds: one short id, one image and one
\* command, nothing but elements and values the documentation knows, container
\* paths of its own, and a backend that exists, with network ahead of a remote one.
Legal(name, value) ==
    CASE name \in {"memory_mb", "cpu_share"} -> value > 0
      [] name \in {"use_container_logging", "enable_network"} -> value \in {"yes", "no"}
      [] name = "resource_group_id" -> value = "cgroup"
      [] name = "roles" -> value # {}
WellFormed(f, node) ==
    /\ \A tag \in {"id", "image", "command"} : Len(Elements(node, tag)) = 1
    /\ Len(Elements(node, "id")[1].p.value) < RUNTIME_ID_MAX_LENGTH
    /\ \A e \in Range(node) :
          \/ e.tag \in {"id", "image", "command"}
          \/ /\ e.tag = "setting"
             /\ DOMAIN e.p \cap SettingNames # {}
             /\ \A name \in DOMAIN e.p \cap SettingNames : Legal(name, e.p[name])
          \/ e.tag = "shared_directory" /\ e.p.access \in {"ro", "rw"}
          \/ e.tag = "device_request" /\ Has(e, "type")
          \/ e.tag = "backend"
    /\ LET dirs == Elements(node, "shared_directory")
       IN  Cardinality({e.p.container : e \in Range(dirs)}) = Len(dirs)
    /\ \A i \in DOMAIN node :
          node[i].tag = "backend" =>
              LET types == BackendTypes(f, SubSeq(node, 1, i))
              IN  /\ types # {}
                  /\ "remote_docker" \in types =>
                        Attr(SubSeq(node, 1, i), "enable_network", "no") = "yes"

\* The runtimes of a file; none if it fails before the first of them.
RuntimesOf(f) ==
    IF f \in {NoFile, Unreadable} THEN <<>>
    ELSE IF f.root # "configuration" \/ \E e \in Range(f.backends) : ~BackendOK(e) THEN <<>>
    ELSE f.runtimes
\* A runtime goes by its first <id>.
IdsOf(node) ==
    {Elements(node, "id")[i].p.value : i \in {1} \cap DOMAIN Elements(node, "id")}
\* How many runtimes at the head of the file are well-formed and have an id of
\* their own.
SoundUpTo(f, k) ==
    \A i \in 1..k :
        /\ WellFormed(f, RuntimesOf(f)[i])
        /\ \A j \in 1..(i - 1) : IdsOf(RuntimesOf(f)[i]) \cap IdsOf(RuntimesOf(f)[j]) = {}
SoundRuntimes(f) == CHOOSE k \in 0..Len(RuntimesOf(f)) :
                SoundUpTo(f, k) /\ (k < Len(RuntimesOf(f)) => ~SoundUpTo(f, k + 1))
IdsUpTo(f, k) == UNION {IdsOf(RuntimesOf(f)[i]) : i \in 1..k}
NodeOf(f, id) == RuntimesOf(f)[CHOOSE i \in 1..Len(RuntimesOf(f)) :
                                /\ id \in IdsOf(RuntimesOf(f)[i])
                                /\ \A j \in 1..(i - 1) : id \notin IdsOf(RuntimesOf(f)[j])]
\* Of those, the ones whose id the first broken runtime repeats, or whose id is
\* as long as it may be and begins the longer id of the broken one.
SharedWithBroken(f, k) ==
    IF k = Len(RuntimesOf(f)) THEN {}
    ELSE {id \in IdsUpTo(f, k) : \E other \in IdsOf(RuntimesOf(f)[k + 1]) :
            \/ other = id
            \/ IsStrictPrefix(id, other) /\ Len(id) = RUNTIME_ID_MAX_LENGTH - 1}

\* It touches the network or a device at some point, or names roles.
Restricted(node) ==
    \E e \in Range(node) :
        \/ e.tag = "setting" /\ Has(e, "enable_network") /\ e.p.enable_network = "yes"
        \/ e.tag = "setting" /\ Has(e, "roles")
        \/ e.tag = "device_request"

\* Whatever was edited, refreshed or called, and also after a refresh that
\* failed: an entry of the table is a well-formed runtime of the file last read,
\* and holds all that runtime's elements say and nothing of another's; and every
\* runtime ahead of the first broken one has its entry, so a file without a
\* broken one is in the table whole (parse_runtime_configuration with its
\* PG_CATCH, get_runtime_configurations).  Nothing is claimed of a well-formed
\* runtime whose id the broken one repeats, or whose id of full length begins the
\* over-long id of the broken one: the code removes its entry, see
\* OnlyBrokenRemoved.
TableAsRead ==
    table # NoTable =>
        LET t == table[2]
            k == SoundRuntimes(read)
        IN  /\ DOMAIN t \subseteq IdsUpTo(read, k)
            /\ IdsUpTo(read, k) \ SharedWithBroken(read, k) \subseteq DOMAIN t
            /\ \A id \in DOMAIN t :
                  LET node == NodeOf(read, id)
                      dirs == Elements(node, "shared_directory")
                  IN  /\ t[id].memoryMb = Attr(node, "memory_mb", 1024)
                      /\ t[id].cpuShare = Attr(node, "cpu_share", 1024)
                      /\ t[id].enableNetwork = (Attr(node, "enable_network", "no") = "yes")
                      /\ t[id].roles = Attr(node, "roles", {})
                      /\ t[id].dirs = [i \in 1..Len(dirs) |-> dirs[i].p]
                      /\ Len(t[id].devices) = Len(Elements(node, "device_request"))

\* "remove the broken runtime config entry in hash table": a well-formed runtime
\* ahead of the broken one keeps its entry.  Does not hold of the code: a
\* repeated id, or one that is too long, removes the entry of a sound runtime.
OnlyBrokenRemoved == table # NoTable => IdsUpTo(read, SoundRuntimes(read)) \subseteq DOMAIN table[2]

\* A runtime that has network or a device, or that names roles, is only used by a
\* member of the roles it names, whether its container exists already or not
\* (plcontainer_get_result: "We need to check the privilege in each run").
ControlledAccess ==
    last.outcome \in {"used", "created"} =>
        LET node == NodeOf(read, last.id)
        IN  Restricted(node) => MemberOf[last.user] \cap Attr(node, "roles", {}) # {}

\* What a device request of a runtime asks for: every device, or those it lists.
AsksForAll(req) == Has(req, "all") \/ Elements(req.c, "deviceid") = <<>>
AskedAs(req, sent) ==
    IF AsksForAll(req) THEN sent.count = -1 /\ sent.ids = <<>>
    ELSE /\ sent.count = 0
         /\ Range(sent.ids) = {e.p.value : e \in Range(Elements(req.c, "deviceid"))}

\* A container is created as its runtime in the file says: with the memory and
\* the network asked for, over TCP exactly when the backend it means is a
\* remote_docker and over a socket in a directory shared with it otherwise, with
\* its shared directories, and for each device request with the listed devices or
\* all of them, never both (start_backend, plc_docker_create_container).  Where a
\* runtime may mean two backends it is one of them.  Nothing is claimed of a
\* request for all devices after the first, see AllDevicesAsked.
CreatedAsConfigured ==
    last.outcome = "created" =>
        LET node == NodeOf(read, last.id)
            body == containers[last.id]
            types == BackendTypes(read, node)
            dirs == Elements(node, "shared_directory")
            devices == Elements(node, "device_request")
        IN  /\ body.Memory = Attr(node, "memory_mb", 1024) * 1048576
            /\ body.NetworkDisabled = (Attr(node, "enable_network", "no") # "yes")
            /\ IF body.ExposedPorts THEN "remote_docker" \in types
               ELSE types # {"remote_docker"}
            /\ body.Binds = [i \in 1..Len(dirs) |-> dirs[i].p]
                              \o (IF body.ExposedPorts THEN <<>> ELSE <<"socket directory">>)
            /\ Len(body.DeviceRequests) = Len(devices)
            /\ \A i \in 1..Len(devices) :
                  i = 1 \/ ~AsksForAll(devices[i]) => AskedAs(devices[i], body.DeviceRequests[i])

\* "empty device list means enable all device", in every request of a runtime.
\* Does not hold of the code: the count is set in the first request only.
AllDevicesAsked ==
    last.outcome = "created" =>
        LET devices == Elements(NodeOf(read, last.id), "device_request")
        IN  \A i \in 1..Len(devices) :
                AskedAs(devices[i], containers[last.id].DeviceRequests[i])

\* "<enable_network> must be true when using remote_docker as backend": an entry
\* with a remote backend has network.
RemoteHasNetwork ==
    table # NoTable =>
        \A id \in DOMAIN table[2] :
            table[2][id].backend.tag = "remote" => table[2][id].enableNetwork

\* "freespace is enough to add one more element": no backend is written to or
\* freed from outside the array.
BackendsInBounds == ~backends.overrun
=============================================================================

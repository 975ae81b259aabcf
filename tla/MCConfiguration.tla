--------------------------- MODULE MCConfiguration ---------------------------
(* Configuration files with the things that go wrong in them, for TLC. *)
EXTENDS Configuration, TLC

El(tag, p) == [tag |-> tag, p |-> p, c |-> <<>>]
Id(id) == El("id", [value |-> id])
Image == El("image", <<>>)
Command == El("command", <<>>)
Network(v) == El("setting", [enable_network |-> v])
Roles(r) == El("setting", [roles |-> r])
Dir(c, access) == El("shared_directory", [host |-> "host", container |-> c, access |-> access])
On(name) == El("backend", [name |-> name])
Device(p, c) == [tag |-> "device_request", p |-> p, c |-> c]
DeviceId(d) == El("deviceid", [value |-> d])

A == <<"a">>
B == <<"b">>
AB == <<"a", "-", "b">>
Basic(id) == <<Id(id), Image, Command>>

Remote == [tag |-> "backend", p |-> [name |-> "far", type |-> "remote_docker"],
           c |-> <<El("address", <<>>), El("port", <<>>)>>]
FarDefault == [Remote EXCEPT !.p.name = "default"]
Local(name) == [tag |-> "backend", p |-> [name |-> name, type |-> "docker"],
                c |-> <<El("address", <<>>)>>]
NoAddress == [tag |-> "backend", p |-> [name |-> "far", type |-> "docker"], c |-> <<>>]

Config(backs, runtimes) ==
    [root |-> "configuration", backends |-> backs, runtimes |-> runtimes]

MCUnreadable == [root |-> "unreadable"]
Sound ==
    { Config(<<>>, <<Basic(A), Basic(B)>>),
      Config(<<Remote>>,
             <<Basic(A) \o <<Network("yes"), Roles({"r"}), On("far")>>,
               Basic(B) \o <<Device([type |-> "gpu"], <<DeviceId("d1"), DeviceId("d2")>>),
                             Device([type |-> "gpu", all |-> "true"], <<>>),
                             Roles({"r", "s"})>>>>),
      Config(<<Local("near"), FarDefault>>,
             <<Basic(A) \o <<Network("yes"), Network("no"), Roles({"r"}),
                             Dir("x", "ro"), Dir("y", "rw")>>,
               Basic(AB) \o <<Network("yes"), On("default"),
                              Device([type |-> "gpu", all |-> "true"], <<DeviceId("d1")>>),
                              Device([type |-> "gpu"], <<DeviceId("d1")>>),
                              El("setting", [memory_mb |-> 512, roles |-> {"s"}])>>>>),
      Config(<<>>, <<Basic(A) \o <<Device([type |-> "gpu"], <<El("driver", <<>>)>>),
                                  Roles({"r"})>>,
                     Basic(B) \o <<Network("yes"), Network("no")>>>>) }
Broken ==
    { MCUnreadable,
      [root |-> "config", backends |-> <<>>, runtimes |-> <<Basic(A)>>],
      Config(<<>>, <<>>),
      Config(<<NoAddress>>, <<Basic(A)>>),
      Config(<<>>, <<Basic(A), Basic(B), Basic(A), Basic(AB)>>),
      Config(<<>>, <<Basic(B), Basic(A) \o <<Id(B)>>, Basic(AB)>>),
      Config(<<>>, <<Basic(A), Basic(B) \o <<El("setting", [memory_mb |-> 0])>>>>),
      Config(<<Remote>>, <<Basic(A) \o <<On("far")>>>>),
      Config(<<>>, <<Basic(A), Basic(B) \o <<On("far")>>>>),
      Config(<<>>, <<Basic(A) \o <<Dir("x", "ro"), Dir("x", "rw")>>, Basic(B)>>),
      Config(<<>>, <<Basic(A), <<Id(B), Image, On("default")>>>>),
      Config(<<>>, <<Basic(B), <<Image, Command>>>>),
      Config(<<>>, <<Basic(<<"a", "a", "a">>), Basic(A), Basic(<<"a", "a", "a", "a">>)>>) }
MCFiles == Sound \cup Broken

MCSources ==
    { <<"nl", "#", "container", ":", "blank", "a", "nl", "code">>,
      <<"#", "blank", "container", "blank", ":", "b", "blank", "nl">>,
      <<"#", "container", ":", "a", "-", "b", "nl">>,
      <<"#", "container", ":", "-", "b", "nl">>,
      <<"#", "container", ":", "a">>,
      <<"#", "container", ":", "blank", "nl">>,
      <<"container", ":", "a", "nl">> }

MCMemberOf == [u1 |-> {"r"}, u2 |-> {"s"}]

\* The element order that escapes the test of the backend.
OrderFiles == {MCUnreadable,
               Config(<<Remote>>, <<Basic(A) \o <<Network("yes"), On("far"), Network("no")>>>>)}
\* A third backend, and a second one that fails.
ManyFiles == {MCUnreadable,
              Config(<<Remote, Local("b1"), Local("b2")>>, <<Basic(A)>>),
              Config(<<Remote, NoAddress>>, <<Basic(A)>>)}
=============================================================================

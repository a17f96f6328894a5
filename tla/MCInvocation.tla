---------------------------- MODULE MCInvocation ----------------------------
(* A container that uses a secret, a config file and a volume mount of its *)
(* own, a volume, and two host keys; the inputs change, reword, lock, drop *)
(* or break them.                                                          *)
EXTENDS Invocation, TLC

CONSTANTS k1, k2

Image == <<"Container", "Image">>
Environment == <<"Container", "Environment">>
Driver == <<"Volume", "Driver">>
MCOtherOption == {Image, Environment, Driver}
MCValueOrder ==
    << <<"A", "1">>, <<"B", "2">>, <<"B", "3">>, <<"TRUE">>, <<"data", "/data">>, <<"false">>,
       <<"web", "/etc/web.conf", "ro,Z">> >>

String(v) == [form |-> "string", value |-> <<v>>]
List(vs) == [form |-> "list", values |-> vs]
Map(es) == [form |-> "map", entries |-> es]

Web == [apiVersion |-> "v1", type |-> "container", name |-> "web",
        unit |-> Image :> String("img") @@ Environment :> Map(<< <<"A", "1">>, <<"B", "2">> >>)
                 @@ ContainerVolume :> List(<< <<"data", "/data">> >>)
                 @@ ContainerSecret :> Map(<< <<"creds-a", "type=env">> >>),
        desiredState |-> "", removalAllowed |-> "", mounts |-> <<"/etc/web.conf">>]
WithOption(spec, k, raw) == [spec EXCEPT !.unit = k :> raw @@ spec.unit]
\* The same in other words, locked, with its own restart delay.
Reworded ==
    [WithOption(WithOption(Web, Environment, List(<< <<"B", "2">>, <<"A", "1">> >>)),
                RestartSec, String("30s"))
        EXCEPT !.desiredState = "running", !.removalAllowed = "false"]
Marked == [WithOption(Web, RemovalAllowed, List(<< <<"false">>, <<"TRUE">> >>))
              EXCEPT !.removalAllowed = "false"]
Job == WithOption(Web, ServiceType, String("oneshot"))

Data == [apiVersion |-> "v1", type |-> "volume", name |-> "data",
         unit |-> [k \in {} |-> None], removalAllowed |-> "", reclaimPolicy |-> ""]
Creds(v, ks) == [apiVersion |-> "v1", type |-> "secret", name |-> "creds", yaml |-> TRUE,
                 values |-> "a" :> v, recipients |-> ks]

Stream(specs) == [form |-> "stream", specs |-> specs]
MCStreams ==
    {Stream(<<Web, Data, Creds("x", {k1})>>),
     Stream(<<Reworded, [Data EXCEPT !.reclaimPolicy = "Retain"], Creds("x", {k2})>>),
     Stream(<<WithOption(WithOption(Web, Environment, Map(<< <<"B", "3">> >>)),
                         Restart, String("no")),
              WithOption(Data, Driver, String("local")), Creds("y", {k1})>>),
     Stream(<<Marked, Data, Creds("x", {k1})>>),
     Stream(<<Web, Creds("y", {k1})>>),
     [form |-> "dir", specs |-> <<[Web EXCEPT !.desiredState = "stopped"], Creds("y", {k1})>>],
     [form |-> "array", specs |-> <<>>]}

NoSecrets == [n \in {"creds-a", "other"} |-> None]
MCInitialStores ==
    {NoSecrets,
     [n \in {"creds-a", "other"} |-> [value |-> "x", legacy |-> n = "creds-a"]]}

ASSUME InputsMeetHypotheses == LockedComesWithItsSecrets /\ SpecsArePlain
=============================================================================

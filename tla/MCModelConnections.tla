-------------------------- MODULE MCModelConnections --------------------------
(***************************************************************************)
(* Hosts files like hosts-configs/config0.xml with a router and an         *)
(* element, on two hosts.                                                  *)
(***************************************************************************)
EXTENDS ModelConnections

CONSTANTS localhost, remote, bits   \* two addresses, a parameter

MCWords == {"port", "ip", "sim", "sync", "total", "num", "models", "persist", "all",
            "model", "names", "dependencies", "simulation", "address", "routingBits",
            "connectivityBits", "End", "configuration", "server", "router", "element",
            "systemc", "adapter", "event", "queue", "0"}

server_name == <<"configuration", "server">>
router_0    == <<"router", "0">>
element_0   == <<"element", "0">>
systemc_adapter_0 == <<"systemc", "adapter", "0">>

Model(id, path, host, depends, parameters) ==
  [id |-> id, path |-> path, persist |-> path = "router", host |-> host,
   depends |-> depends,
   parameters |-> [i \in DOMAIN parameters |-> [name |-> <<parameters[i]>>, text |-> bits]]]

(* The file with a given interval and given parameters of the router.      *)
File(minPort, maxPort, parameters) ==
  [minPort |-> minPort, maxPort |-> maxPort,
   hosts |-> [h \in {"host_0", "host_1"} |-> IF h = "host_0" THEN localhost ELSE remote],
   models |->
     <<Model(server_name, "configuration_server", "host_0", <<>>, <<>>),
       Model(simulation_model, "simulation_model", "host_0", <<>>, <<>>),
       Model(router_0, "router", "host_0", <<element_0>>, parameters),
       Model(element_0, "processing_element", "host_1", <<router_0>>, <<>>)>>]

(* An interval that is large enough, one that has a port for every model   *)
(* but none for the synchronisation, one that is too small, ...            *)
Large == File(6000, 6100, <<"address", "routingBits", "connectivityBits">>)
Tight == File(6000, 6003, <<"address", "routingBits", "connectivityBits">>)
Small == File(6000, 6001, <<"address">>)
(* ... and a parameter that takes the key of a port.                       *)
Clash == File(6000, 6100, <<"address", "port">>)

(* The same with an adapter instead of the element ...                     *)
Adapted(file) ==
  [file EXCEPT !.models[3].depends = <<systemc_adapter_0>>,
               !.models[4] = Model(systemc_adapter_0, "systemc_adapter", "host_1",
                                   <<router_0>>, <<>>)]

(* ... or without the third or the fourth model, whose name is unknown     *)
(* then.                                                                   *)
Apart(file, i) ==
  [file EXCEPT !.models = <<@[1], @[2], @[i]>>]

(* An event queue, of which the file says that it depends on a model.      *)
Queued(file) ==
  [file EXCEPT !.models = <<@[1], @[2], Model(<<"event", "queue">>, "event_queue_1",
                                              "host_1", <<router_0>>, <<>>)>>]

AllFiles  == {Tight, Adapted(Clash), Queued(Large),
              Apart(Large, 3), Apart(Small, 3), Apart(Clash, 3),
              Apart(Adapted(Large), 4), Apart(Adapted(Small), 4)}
TightFile == {Tight}

(* Nothing fails with the first file, everything with those of three       *)
(* models.                                                                 *)
SomeFaults ==
  [file \in HostsFiles |-> CASE file = Tight -> {}
                            [] file = Adapted(Clash) -> {"busy"}
                            [] OTHER -> FaultNames]
NoFaults == [file \in HostsFiles |-> {}]

ASSUME FilesDiffer ==
  /\ Complete(Large) /\ Complete(Tight)
  /\ NoClash(Small) /\ ~Complete(Small)
  /\ ~NoClash(Clash)

=============================================================================

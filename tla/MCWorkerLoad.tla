---------------------------- MODULE MCWorkerLoad ----------------------------
(* WorkerLoad with configs that each exercise one of its parts, so that the *)
(* parts meet across reconfigurations and not in a product.                 *)
EXTENDS WorkerLoad, TLC

Config(c, r, servers, footprintCpu, footprintRam) ==
  [cpu |-> c, ram |-> r, net |-> FALSE, count |-> servers,
   baseCpu |-> footprintCpu, baseRam |-> footprintRam]

Stop     == Config(0, 0, 0, 0, 0)
Receives == Config(0, 0, 1, 0, 0)
Sends    == [Stop EXCEPT !.net = TRUE]
OneCore  == Config(130, 0, 0, 37, 0)
TwoCores == Config(1500, 0, 0, 90, 0)
Memory   == Config(0, 6, 0, 0, 2)
NoRoom   == Config(40, 1, 0, 60, 4)     \* the footprint alone is too much

MCPayloads == {Stop, Receives, Sends, OneCore, TwoCores, Memory, NoRoom}

MCPlans == {<<Sends, Receives>>, <<OneCore, TwoCores>>, <<OneCore, Stop, OneCore>>,
            <<Memory, OneCore>>, <<NoRoom, Memory>>}

\* On a node of two cores.
MCFullPlans == {<<OneCore, TwoCores>>}

=============================================================================

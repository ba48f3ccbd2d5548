----------------------------- MODULE MCMemoryBus -----------------------------
(***************************************************************************)
(* MemoryBus with two replicas in one group and a second group of one.     *)
(***************************************************************************)
EXTENDS MemoryBus

CONSTANTS tester, market, tester1, tester2, market1

MCGroup == {tester, market}
MCConsumer == {tester1, tester2, market1}
MCGroupOf == [c \in MCConsumer |-> IF c = market1 THEN market ELSE tester]
MCTopic == {"strategy.built", "data.request"}
MCWanted == [g \in MCGroup |->
               IF g = tester THEN {"strategy.built"} ELSE {"data.request"}]
MCBody == {"payload"}
=============================================================================

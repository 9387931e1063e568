---------------------------- MODULE MCQueriesV2 ----------------------------
(* Instances of QueriesV2 for TLC.                                         *)
EXTENDS QueriesV2, TLC

CONSTANTS u1, u2, export1, export2, device1, device2, service1, service2, service3, group1, c1, c2

\* two exports of different owners, and three services of two devices
MCOwnerOf == [s \in Source |-> IF s = export1 THEN u1 ELSE IF s = export2 THEN u2 ELSE NoUser]
MCDeviceOf == [s \in Source |-> IF s \in {service1, service2} THEN device1
                                ELSE IF s = service3 THEN device2 ELSE s]
MCColumnLists == {<<c1>>, <<c1, c2>>}

\* a group of the two devices: criterion c1 matches two services of device1
\* and one of device2, criterion c2 matches a service of device2 only
MCDevices == [g \in {group1} |-> {device1, device2}]
MCSelectables ==
    group1 :> ((c1 :> <<[device |-> device1, services |-> {service1, service2}],
                        [device |-> device2, services |-> {service3}]>>) @@
               (c2 :> <<[device |-> device2, services |-> {service3}]>>))
=============================================================================

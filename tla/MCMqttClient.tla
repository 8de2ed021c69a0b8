---------------------------- MODULE MCMqttClient ----------------------------
(***************************************************************************)
(* Instances of MqttClient for TLC.                                        *)
(***************************************************************************)
EXTENDS MqttClient

\* One thread makes every call: the use MQTTClient.h describes.
OneThread == {"app"}
AllCalls == [t \in OneThread |-> CallNames]

\* The calls of mqtt_pub_task and of mqtt_sub_task, as the program starts them.
TwoThreads == {"pub", "sub"}
TaskCalls == [t \in TwoThreads |->
                IF t = "pub" THEN {"connect", "subscribe", "publish"} ELSE {"yield"}]

AckedQos == {1, 2}
AckedOrOversize == {1, 2, Oversize}
Qos0 == {0}
=============================================================================

----------------------------- MODULE MCBluetooth -----------------------------
(* Bluetooth with small queues: the main loop is easily too late for _rx.    *)
EXTENDS Bluetooth
=============================================================================

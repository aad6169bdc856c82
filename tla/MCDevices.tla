------------------------------ MODULE MCDevices ------------------------------
(* Devices with a screen of three lines, a calendar register of four bits   *)
(* and two times.                                                           *)
EXTENDS Devices

\* The display: ocw1, ocw2 normal and reverse, ocw3, ocw5 off and on
MCCmdBytes == {0, 32, 33, 64, 128, 129}

\* 24 selects 25 lines, 1 and 6 select 20. As modes: 40 columns colour, 80
\* columns colour, 40 columns mono. As rows: 0 and 1 are on
\* the screen, 6 and 24 are below it.
MCDataBytes == {1, 6, 24}

\* 4 lets the DMA fetch, 243 (0xf3) does not; together they make the window
\* 0xf304, and every mixed-up one
MCDmaBytes == {4, 243}

MCTimes == {<<1, 0, 1, 1>>, <<0, 1, 1, 0>>}

\* For the calendar every command with either data bit, and every combination of strobe, clock
\* and a bit of the beeper; modes of all three timers; a motor command and
\* another.
MCOuts ==
  [display |-> {<<\h51, c>> : c \in MCCmdBytes} \union {<<p, d>> : p \in {\h30, \h50}, d \in MCDataBytes}
                 \union {<<p, d>> : p \in {\h64, \h68}, d \in MCDmaBytes},
   calendar |-> {<<\h10, c>> : c \in 0..15} \union {<<\h40, 2 * e + 32 * b>> : e \in 0..3, b \in 0..1},
   timer |-> {<<\h0C, v>> : v \in {0, 1, 2, 255}}
               \union {<<\h0F, 16 * m>> : m \in {0, 1, 2, 3, 7, 11}},
   characters |-> {<<0, 24>>, <<0, 255>>, <<1, 0>>, <<1, 255>>, <<2, 0>>, <<2, 16>>, <<2, 19>>,
                   <<2, 51>>, <<3, 0>>, <<3, 1>>, <<5, 0>>},
   tape |-> {<<\h20, 7>>, <<\h21, 64>>, <<\h21, 0>>}]

MCTapeFiles == {<<1, 2, 3>>, <<4>>, <<5, 6>>, << >>}
=============================================================================

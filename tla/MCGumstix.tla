------------------------------ MODULE MCGumstix ------------------------------
(***************************************************************************)
(* Small instances, for TLC, of the parts of the programs of the Gumstix   *)
(* that ControlLoop leaves out: the clock of the loop (LoopTiming), what   *)
(* it makes of sensor and command data (Heading, Filters, OriginalLoop),   *)
(* the settings the terminal sends (TerminalParams, AttitudeTrim) and the  *)
(* channels to it (UdpChannel, TcpServer).  They do not share anything:    *)
(* every behaviour is one of the part chosen at the beginning, and the     *)
(* other parts stay as they begin.                                         *)
(***************************************************************************)
EXTENDS LoopTiming, Sequences

CONSTANTS
  Half, MaxSpin, Bound,                                           \* Heading
  Values, MedSize, AvgSize, MDiff, Limit, FirGain, Scale,         \* Filters
  Samples, Commands, TiltLimit, PosGain, OriginalThreshold,       \* OriginalLoop
  MotorMax, RevStep, LiftOff,
  Fields, MaxPackets, Multiplier,                                 \* TerminalParams
  Attitudes, MaxStores,                                           \* AttitudeTrim
  Ports, MaxInbox, MaxRestarts,                                   \* UdpChannel
  FDs, MaxConns                                                   \* TcpServer

VARIABLES
  part,
  yaw_next, yaw_heli_state, yaw_heli_settled, data_offset_yaw, last_scaled_yaw,
  yaw_wn_imu, sensor_yaw, last_command_yaw, yaw_wn_cmd, command_yaw, iir_cmd_yaw,
  true_yaw, settled_yaw,
  mArray, aArray, aIndex, ofValue, ofCount, fValue, out, recent, count, rising,
  at, pos_heli_state, heli_mode, pos_heli_settled, motor_signals, motor_speed_revving,
  motor_speed_liftoff, pos_command_data_delay, command_roll, cmd_roll, delay_roll,
  last_sensor_y, data_offset_y, position, moved, regulated,
  lock, packet, stored, number, params, newParams, par_step, asks, copy, copied, gains,
  counter,
  store_trim, clear_trim, phase, seen, raw, roll, trim, saved, trim_killed,
  udp_connected, idx, buf, udp_thread, state, need, from, udp_control, peer, inbox,
  refused, port, udp_next, restarts, delivered, streak,
  fd, tcp_connected, tcp_thread, tcp_control, wfd, files, line, backlog, tcp_killed,
  made, heard, mishap

\* Raw outputs of the y controller, below, within and above TiltLimit.
SomeTilts == {-2, 0, 2}

H == INSTANCE Heading WITH next <- yaw_next, heli_state <- yaw_heli_state, heli_settled
       <- yaw_heli_settled
F == INSTANCE Filters WITH Gain <- FirGain
O == INSTANCE OriginalLoop WITH heli_state <- pos_heli_state, heli_settled <-
       pos_heli_settled, command_data_delay <- pos_command_data_delay, Gain <- PosGain,
       Threshold <- OriginalThreshold, Tilts <- SomeTilts
P == INSTANCE TerminalParams WITH step <- par_step
A == INSTANCE AttitudeTrim WITH killed <- trim_killed
U == INSTANCE UdpChannel WITH connected <- udp_connected, thread <- udp_thread, control
       <- udp_control, next <- udp_next
T == INSTANCE TcpServer WITH connected <- tcp_connected, thread <- tcp_thread, control
       <- tcp_control, killed <- tcp_killed

ASSUME GumstixConstantsOK ==
       /\ H!HeadingConstantsOK /\ F!FilterConstantsOK /\ O!OriginalConstantsOK
       /\ P!TerminalConstantsOK /\ A!TrimConstantsOK
       /\ U!UdpConstantsOK /\ T!TcpConstantsOK

timingVars == <<lead, step, new_command_data, command_data_delay, sinceSent, gone,
               late>>
yawVars == <<yaw_next, yaw_heli_state, yaw_heli_settled, data_offset_yaw,
            last_scaled_yaw, yaw_wn_imu, sensor_yaw, last_command_yaw, yaw_wn_cmd,
            command_yaw, iir_cmd_yaw, true_yaw, settled_yaw>>
filVars == <<mArray, aArray, aIndex, ofValue, ofCount, fValue, out, recent, count,
            rising>>
posVars == <<at, pos_heli_state, heli_mode, pos_heli_settled, motor_signals,
            motor_speed_revving, motor_speed_liftoff, pos_command_data_delay,
            command_roll, cmd_roll, delay_roll, last_sensor_y, data_offset_y, position,
            moved, regulated>>
parVars == <<lock, packet, stored, number, params, newParams, par_step, asks, copy,
            copied, gains, counter>>
trimVars == <<store_trim, clear_trim, phase, seen, raw, roll, trim, saved, trim_killed>>
udpVars == <<udp_connected, idx, buf, udp_thread, state, need, from, udp_control, peer,
            inbox, refused, port, udp_next, restarts, delivered, streak>>
tcpVars == <<fd, tcp_connected, tcp_thread, tcp_control, wfd, files, line, backlog,
            tcp_killed, made, heard, mishap>>
allVars == <<part, timingVars, yawVars, filVars, posVars, parVars, trimVars, udpVars,
            tcpVars>>

AllInit ==
  /\ part \in {"timing", "heading", "filters", "original", "params", "trim", "udp", "tcp"}
  /\ Init /\ H!Init /\ F!Init /\ O!Init /\ P!Init /\ A!Init /\ U!Init /\ T!Init
  /\ part = "heading" \/ true_yaw = 0

AllNext ==
  /\ UNCHANGED part
  /\ \/ part = "timing" /\ Next
        /\ UNCHANGED <<yawVars, filVars, posVars, parVars, trimVars, udpVars, tcpVars>>
     \/ part = "heading" /\ H!Next
        /\ UNCHANGED <<timingVars, filVars, posVars, parVars, trimVars, udpVars, tcpVars>>
     \/ part = "filters" /\ F!Next
        /\ UNCHANGED <<timingVars, yawVars, posVars, parVars, trimVars, udpVars, tcpVars>>
     \/ part = "original" /\ O!Next
        /\ UNCHANGED <<timingVars, yawVars, filVars, parVars, trimVars, udpVars, tcpVars>>
     \/ part = "params" /\ P!Next
        /\ UNCHANGED <<timingVars, yawVars, filVars, posVars, trimVars, udpVars, tcpVars>>
     \/ part = "trim" /\ A!Next
        /\ UNCHANGED <<timingVars, yawVars, filVars, posVars, parVars, udpVars, tcpVars>>
     \/ part = "udp" /\ U!Next
        /\ UNCHANGED <<timingVars, yawVars, filVars, posVars, parVars, trimVars, tcpVars>>
     \/ part = "tcp" /\ T!Next
        /\ UNCHANGED <<timingVars, yawVars, filVars, posVars, parVars, trimVars, udpVars>>

\* The fairness of the parts that promise something in the end; the data of sensors and
\* commands have none.
AllSpec ==
  /\ AllInit /\ [][AllNext]_allVars
  /\ WF_timingVars(part = "timing" /\ Tick)
  /\ WF_timingVars(part = "timing" /\ Loop)
  /\ WF_parVars(part = "params" /\ P!TerminalThread)
  /\ SF_parVars(part = "params" /\ P!LockParams)
  /\ WF_parVars(part = "params" /\ P!ControlThread)
  /\ WF_trimVars(part = "trim" /\ A!ControlThread)
  /\ WF_udpVars(part = "udp" /\ U!TerminalThread)
  /\ WF_udpVars(part = "udp" /\ U!ControlThread)
  /\ WF_udpVars(part = "udp" /\ U!TerminalSends)
  /\ WF_tcpVars(part = "tcp" /\ ~tcp_killed /\ T!TerminalThread)
  /\ WF_tcpVars(part = "tcp" /\ ~tcp_killed /\ T!ControlThread)

-----------------------------------------------------------------------------
\* The types of all parts; that indices, windings and tilts keep their ranges over the
\* iterations, and that a UDP socket is never taken for connected without an address,
\* is part of them.
AllTypesOK ==
  TypeOK /\ H!TypeOK /\ F!TypeOK /\ O!TypeOK /\ P!TypeOK /\ A!TypeOK /\ U!TypeOK /\ T!TypeOK

\* However often the IMU and the terminal wrap around, the controllers get the angle the
\* helicopter has turned since it last stood, and no fresh command asks for more than
\* half a turn (control_loop.c 265-295, 406-436).
HeadingFollowsTruth ==
  /\ [](part = "heading" => H!HeadingFollowsTruth)
  /\ H!CommandTakesShortWay

\* The filters follow their signal: the median of a rising signal is its median, a level
\* that lasts comes out as it is, the average is that of the last updates after the index
\* came round, and outliers are taken late but in the end (median_filter.c,
\* average_filter.c, outlier_filter.c, fir_lp_filter.c).
FiltersFollow ==
  /\ [](F!MedianOfRising /\ F!MedianTakesLevel /\ F!AverageOfLast /\ F!FirKeepsLevel
        /\ F!LevelIsTaken)
  /\ F!OutliersAreFew

\* A flight of the first control loop begins level and at place 0, and after a switch to
\* the position mode, in flight as it may be, the tilt is within the limit of the y
\* controller before its cadence is over (control_loop_original.c 765-784).  Up to then,
\* and after a switch back to manual mode, a place may be flown as a tilt: line 813 takes
\* whatever the command is.  And without fresh command data the
\* tilt of line 818 is the place of line 772: where the helicopter flies to is no part of
\* the claim.
PositionModeSettles == O!StartsLevel /\ O!TakeOffReadsZero /\ O!TiltIsRegulated

\* The settings the pilot sent are used whole, and as they are: never gains of two
\* packets in one controller, never roll and pitch with different ones, none lost while
\* those before it are fetched (terminal_port.c, control_loop.c), and a trim stored at an
\* attitude levels it, also in the next run of the program (main.c,
\* control_loop_original.c).
SettingsAreKept ==
  /\ [](P!GainsAreOneSet /\ P!GainsAreCurrent /\ A!LevelAtStoredAttitude)
  /\ A!TrimOutlivesTheProgram

\* Two threads use a channel to the terminal: no descriptor is lost between them, but for
\* the one race and a failing setsockopt (tcp_socket_channel.c), and what is read is what
\* was sent, from the third datagram of a session on (udp_socket_channel.c).
SessionsAreKept == [](part = "tcp" => T!NoLeak) /\ U!SessionSettles

\* What the terminal does has its effect in the end, under the fairness of the threads:
\* gains are used, a trim is cleared, a terminal that is gone is found to be gone, and
\* one that stays is heard over UDP and read from over TCP.
TerminalIsHeard ==
  /\ part = "params" => P!GainsTakeEffect
  /\ part = "trim" => A!ClearTrimServed
  /\ part = "timing" => GoneIsBroken
  /\ part = "udp" => U!TerminalIsHeard
  /\ part = "tcp" => T!TerminalIsServed
=============================================================================

----------------------------- MODULE MCSignals -----------------------------
(***************************************************************************)
(* A second of four microseconds and two milliseconds.  Databases with     *)
(* numbers and states, with strings, and with mistakes.                    *)
(***************************************************************************)
EXTENDS Signals

MCNumeric(n, offset, size) ==
  [complete |-> TRUE, type |-> "numeric", number |-> n, offset |-> offset, size |-> size]
MCStatus(n, offset, bit, bits) ==
  [complete |-> TRUE, type |-> "status", number |-> n, offset |-> offset, bit |-> bit,
   bits |-> bits]
MCString(n) == [complete |-> TRUE, type |-> "string", number |-> n]
MCFrame(pgn, length, spns) ==
  [complete |-> TRUE, pgn |-> pgn, length |-> length, spns |-> spns]
MCFile(frames) == [error |-> "OK", frames |-> frames]

\* Two of one PGN, the first one counts; FMS1 is defined already.
MCGood == MCFile(<<MCFrame(61184, 0, <<MCNumeric(1, 0, 1)>>),
                   MCFrame(61184, 8, <<>>),
                   MCFrame(65265, 3, <<MCStatus(5, 1, 6, 2), MCNumeric(6, 2, 2),
                                       MCStatus(4, 1, 3, 2)>>),
                   MCFrame(64893, 0, <<>>), MCFrame(2^16, 0, <<>>),
                   MCFrame(65260, 0, <<MCString(9), MCString(7), MCString(8)>>)>>)

MCWrong(d) == MCFile(<<MCFrame(65265, 0, <<MCNumeric(1, 0, 1), d>>)>>)

MCBad == {[error |-> "FILE_NOT_FOUND", frames |-> <<>>],
          MCFile(<<MCFrame(61185, 0, <<>>)>>), MCFile(<<MCFrame(65226, 0, <<>>)>>),
          MCWrong(MCString(2)), MCWrong(MCNumeric(2, 1, 5)), MCWrong(MCStatus(2, 1, 7, 2)),
          MCWrong([complete |-> FALSE]), MCWrong([complete |-> TRUE, type |-> "other"])}

MCFiles == {MCGood} \cup MCBad

MCDTCs == {[spn |-> 0, fmi |-> 1, oc |-> 1], [spn |-> 2^19 - 2, fmi |-> 31, oc |-> 127],
           [spn |-> 2^19, fmi |-> 32, oc |-> 128]}

\* All kinds of frames, and nobody receives them.
MCEditing ==
  [pgns |-> {61184, 65265, 65260, 65226, 64893},
   inputs |-> [numeric |-> {<<0, 0, 0, 0>>, <<1, 2, 0, 0>>},
               status  |-> {0, 2, 4},
               string  |-> {<<65>>, <<65, 66>>, <<65, Terminator>>, <<0, 65>>,
                            <<200>>, [i \in 1 .. 255 |-> 65]}],
   dtcs |-> MCDTCs, statuses |-> {0, 3}, edits |-> 3, sent |-> 0, short |-> {},
   resets |-> 0, ticks |-> 0, clients |-> {}]

\* They are received, and nobody looks at graphs.
MCReceiving ==
  [pgns |-> {61184, 65265, 65260, 64893, 2^16},
   inputs |-> [numeric |-> {<<0, 0, 0, 0>>, <<1, 0, 0, 0>>}, status |-> {2},
               string |-> {<<65>>}],
   dtcs |-> {[spn |-> 1, fmi |-> 1, oc |-> 1]}, statuses |-> {3}, edits |-> 2, sent |-> 3,
   short |-> {<<>>, <<1>>}, resets |-> 1, ticks |-> 0, clients |-> {}]

\* The eight lamps of DM1.
MCLamps ==
  [pgns |-> {65226}, inputs |-> [status |-> {}], dtcs |-> {}, statuses |-> {},
   edits |-> 0, sent |-> 2, short |-> {}, resets |-> 0, ticks |-> 0, clients |-> {}]

\* One number, and graphs of it.
MCWatching ==
  [pgns |-> {61184}, inputs |-> [numeric |-> {<<0, 0, 0, 0>>, <<1, 0, 0, 0>>}],
   dtcs |-> {}, statuses |-> {}, edits |-> 2, sent |-> 3, short |-> {},
   resets |-> 0, ticks |-> 4, clients |-> {"p", "q"}]

\* One frame with the value zero.
MCZero ==
  [pgns |-> {61184}, inputs |-> [numeric |-> {<<0, 0, 0, 0>>}], dtcs |-> {},
   statuses |-> {}, edits |-> 1, sent |-> 1, short |-> {}, resets |-> 0, ticks |-> 0,
   clients |-> {}]
MCZeroUses == {MCZero}

MCUses == {MCEditing, MCReceiving, MCLamps, MCWatching}

MCKey == <<(61184 + 3) * 2^8 + 3, 1>>

MCQueries == {[key |-> MCKey, samples |-> 2, period |-> 2, time |-> 0],
              [key |-> MCKey, samples |-> 30, period |-> 3, time |-> 3],
              [key |-> MCKey, samples |-> 1, period |-> 3, time |-> 7],
              [key |-> MCKey, samples |-> 0, period |-> 1, time |-> 0],
              [key |-> MCKey, samples |-> 2, period |-> 1, time |-> 0]}
=============================================================================

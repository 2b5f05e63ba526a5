---------------------------- MODULE MCCommandFrame ----------------------------
(***************************************************************************)
(* Bytes of three bits, and files of up to six commands for CommandFrame.  *)
(***************************************************************************)
EXTENDS CommandFrame, SequencesExt

Zeros(n) == [i \in 1 .. n |-> 0]
Start    == <<0, 5, 0, 0, START>>
Finish   == <<0, 5, 0, 0, FINISH>>
Data(lo, hi, n) == <<0, n % Base, n \div Base, 0, DATA, lo, hi>> \o Zeros(n - 7)

\* Sequence bytes on both sides of the sign, and lengths on both sides of Base.
SeqBytes == {0, 1, 4, 7}
Pairs == {<<Start, Data(l1, h1, n1), Data(l2, h2, n2), Finish>> :
            l1 \in SeqBytes, h1 \in SeqBytes, n1 \in {7, 10},
            l2 \in SeqBytes, h2 \in {0, 7}, n2 \in {7, 10}}

\* More DATA commands: of the assumed length, and so short that the percentage
\* is there before the end.
Long == {<<Data(0, 0, 9), Data(1, 0, 9), Data(2, 0, 9), Data(3, 0, 10), Data(4, 0, 9), Finish>>,
         [i \in 1 .. 6 |-> Data(0, i, 7)]}

\* Commands that end before their command byte, alone and behind longer ones, and
\* DATA commands that end before their sequence number or within it.
Short == {<<Data(1, 1, 7), <<0, 3, 0>>, <<3, 4, 0, 4>>, Finish>>,
          <<Data(0, 0, 7), <<0, 5, 0, 0, DATA>>, <<0, 6, 0, 0, DATA, 1>>, Finish>>}

\* Lengths of zero, beyond cmd_buf and beyond the file; a file beyond fw_data_buf.
Malformed == {<<Start, Zeros(3)>>, <<Start, Data(1, 0, 11)>>, <<<<0, 7, 7, 0, DATA>>>>,
              <<Zeros(30), Zeros(31)>>}

\* The file such commands make.
Joined(frames) ==
  [bytes |-> FlattenSeq(frames),
   cuts  |-> [k \in 1 .. Len(frames) + 1 |-> Len(FlattenSeq(SubSeq(frames, 1, k - 1)))]]

MCImages == {Joined(frames) : frames \in Pairs \cup Long \cup Short \cup Malformed}
=============================================================================

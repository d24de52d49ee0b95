------------------------------ MODULE MCGameBoy ------------------------------
(***************************************************************************)
(* Programs for the machine of GameBoy.tla.  Each family of programs takes *)
(* every sequence of a few instructions, in a loop; the vectors at 0x40 to *)
(* 0x60 hold RETI.                                                         *)
(***************************************************************************)
EXTENDS GameBoy

CONSTANTS IrqLength, BankLength   \* instructions in a program's body

\* Assembler: LD A,v; LDH (n),A; LD (a),A; JR.
Put(n, v)   == <<62, v, 224, n>>
PutAt(a, v) == <<62, v, 234, Lo(a), Hi(a)>>
Loop(body)  == body \o <<24, 256 - (Len(body) + 2)>>
Flat(seqs)  == FoldLeft(LAMBDA a, b : a \o b, <<>>, seqs)

ScreenOff == Put(64, 0)
\* The end of a program that has nothing more to do: DIV is reset over and over.
Rest == Loop(<<224, 4>>)

Code(bytes, flag) ==
  [i \in {64, 72, 80, 88, 96} |-> RETI]
    @@ [i \in {323} |-> flag]
    @@ [i \in 256..(255 + Len(bytes)) |-> bytes[i - 255]]
Cartridge(type, rom, bytes, flag, presses) ==
  [type |-> type, rom |-> rom, ram |-> 3, size |-> rom_banks(rom),
   program |-> Code(bytes, flag), keys |-> presses]

(***************************************************************************)
(* Interrupts: the timer runs at its highest rate and overflows often; the *)
(* program masks and unmasks, halts, and raises requests itself.  A HALT   *)
(* is followed by a NOP, as programs do because of the HALT bug.           *)
(***************************************************************************)
IrqBodies == [1..IrqLength -> {<<EI>>, <<243>>, <<118, 0>>, Put(15, 8)}]
IrqProgram(body) ==
  ScreenOff \o Put(6, 254) \o Put(5, 254) \o Put(7, 5) \o Put(255, 28) \o Loop(Flat(body))
IrqCartridges == {Cartridge(0, 0, IrqProgram(b), 0, 1) : b \in IrqBodies}

(***************************************************************************)
(* Bank controllers, as type and ROM size: every sequence of writes to the *)
(* registers, for ROMs of 8 banks and for the largest each can address.    *)
(***************************************************************************)
BankWrites == {<<8192, 0>>, <<8448, 0>>, <<8448, 33>>, <<8448, 255>>, <<12288, 1>>,
               <<16384, 1>>, <<24576, 1>>}
BankProgram(body) ==
  ScreenOff \o Flat([i \in DOMAIN body |-> PutAt(body[i][1], body[i][2])]) \o Rest
BankCartridges ==
  {Cartridge(c[1], c[2], BankProgram(b), 0, 0) :
     c \in {<<3, 2>>, <<3, 6>>, <<6, 2>>, <<6, 3>>, <<19, 2>>, <<19, 6>>, <<27, 2>>, <<27, 8>>},
     b \in [1..BankLength -> BankWrites]}

(***************************************************************************)
(* Decimal arithmetic: SCF or a NOP; ADD, ADC, SUB or SBC; DAA.            *)
(***************************************************************************)
DecimalBytes == {0, 1, 9, 69, 80, 153}
DecimalProgram(x, first, op, y) == ScreenOff \o <<62, x, first, op, y, DAA>> \o Rest
DecimalCartridges ==
  {Cartridge(0, 0, DecimalProgram(x, first, op, y), 0, 0) :
     x \in DecimalBytes, y \in DecimalBytes, first \in {0, 55}, op \in {198, 206, 214, 222}}

(***************************************************************************)
(* The screen: DMA by rows and at once, the screen off and on, interrupts  *)
(* by line and by mode, double speed.                                      *)
(***************************************************************************)
Transfers == {Put(85, 1), Put(85, 31), Put(85, 130)}
ScreenWrites == {Put(64, 17), Put(64, 177), Put(65, 72), Put(77, 1) \o <<16>>,
                 Put(70, 1)}
ScreenProgram(transfer, write) ==
  Put(69, 1) \o Put(255, 3) \o Loop(<<224, 4>> \o transfer \o write)
ScreenCartridges ==
  {Cartridge(27, 1, ScreenProgram(t, w), 128, 0) : t \in Transfers, w \in ScreenWrites}

AllCartridges == IrqCartridges \cup BankCartridges \cup DecimalCartridges \cup ScreenCartridges

\* The registers, and one address of each memory.
OverlayAddresses ==
  {256, 32768, 40960, 49152, 53248, 65024, 65408, 65535}
    \cup {65281, 65282, 65285, 65287, 65295}
    \cup 65344..65349 \cup {65351, 65355, 65357, 65359, 65365, 65384, 65385, 65392, 65394, 65397}
=============================================================================

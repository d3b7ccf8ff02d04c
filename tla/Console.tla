------------------------------ MODULE Console -------------------------------
(***************************************************************************)
(* The path of a key press: the receive buffer of the serial port, the     *)
(* interrupt handler that takes one byte per interrupt, the bounded queue  *)
(* of the kernel, and the reads of Stdin that take one key per call.       *)
(***************************************************************************)
EXTENDS Integers, Sequences, FiniteSets, Functions

CONSTANTS
  BUF_SIZE,    \* the capacity of INPUT_BUF (128 in the kernel)
  MaxTyped     \* bound: the number of keys typed

ASSUME ConsoleAssumption == BUF_SIZE \in Nat \ {0} /\ MaxTyped \in Nat

VARIABLES
  typed,       \* the number of keys typed: the n-th key is the number n
  fifo,        \* keys in the serial port that the kernel has not taken
  INPUT_BUF,   \* the kernel's queue of keys
  dropped,     \* history: the keys the full queue refused
  popped       \* history: the keys handed to readers, in order

consoleVars == <<typed, fifo, INPUT_BUF, dropped, popped>>

(* SerialPort::init empties the buffer of the port and enables the         *)
(* interrupt for received bytes.                                           *)
PortInit == fifo = <<>>

ConsoleInit ==
  /\ PortInit
  /\ typed = 0
  /\ INPUT_BUF = <<>>
  /\ dropped = {}
  /\ popped = <<>>

(* A byte arrives at the serial port. *)
type ==
  /\ typed < MaxTyped
  /\ typed' = typed + 1
  /\ fifo' = Append(fifo, typed')
  /\ UNCHANGED <<INPUT_BUF, dropped, popped>>

push_key_overwrite(key) ==
  /\ INPUT_BUF' = IF Len(INPUT_BUF) = BUF_SIZE THEN Append(Tail(INPUT_BUF), key)
                  ELSE Append(INPUT_BUF, key)
  /\ UNCHANGED dropped

(* push_key: the queue refuses a key when it is full. *)
push_key(key) ==
  IF Len(INPUT_BUF) < BUF_SIZE
  THEN INPUT_BUF' = Append(INPUT_BUF, key) /\ UNCHANGED dropped
  ELSE dropped' = dropped \cup {key} /\ UNCHANGED INPUT_BUF

(* receive, called by the handler of the serial interrupt: one byte from   *)
(* the port, if there is one.                                              *)
receive ==
  /\ fifo # <<>>
  /\ push_key(Head(fifo))
  /\ fifo' = Tail(fifo)
  /\ UNCHANGED <<typed, popped>>

(* try_pop_key, when the queue holds a key. *)
try_pop_key ==
  /\ INPUT_BUF # <<>>
  /\ INPUT_BUF' = Tail(INPUT_BUF)
  /\ popped' = Append(popped, Head(INPUT_BUF))
  /\ UNCHANGED <<typed, fifo, dropped>>

(* The keys handed out, then those queued, then those still in the port. *)
Stream == popped \o INPUT_BUF \o fifo

(* Keys are neither lost, duplicated nor reordered on their way to the     *)
(* readers, except for those the full queue refused: the keys popped,      *)
(* queued and still in the port are those typed less the refused ones, in  *)
(* the order in which they were typed.                                     *)
KeysInOrder ==
  /\ Range(Stream) = (1 .. typed) \ dropped
  /\ \A i, j \in 1 .. Len(Stream) : i < j => Stream[i] < Stream[j]
=============================================================================

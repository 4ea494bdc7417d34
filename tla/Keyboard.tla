------------------------------ MODULE Keyboard ------------------------------
(***************************************************************************)
(* The PS/2 keyboard driver, kernel/src/drivers/keyboard.c, between the    *)
(* keyboard controller that raises IRQ 1 and the processes that read       *)
(* standard input one character at a time.                                 *)
(*                                                                         *)
(* idt_init turns interrupts on before init_keyboard registers the         *)
(* handler, so boot is three steps an interrupt can come between.  Later,  *)
(* interrupts and system calls are atomic and come in any order.           *)
(*                                                                         *)
(* A scan code is a key that has a character, or one of the control codes. *)
(* A character is a key with the shift state that matters to it.           *)
(***************************************************************************)
EXTENDS Integers, Sequences

CONSTANTS
    Keys,           \* scan codes with a character in kmap_low and kmap_up
    Cased,          \* the keys whose two characters differ
    KBUF_SIZE,      \* slots of the ring, 128 in keyboard.c
    None,           \* the character 0; also an empty output buffer
    MaxPresses      \* bound: codes the keyboard sends

ASSUME KeyboardAssumption ==
    /\ KBUF_SIZE \in Nat \ {0, 1}
    /\ Cased \subseteq Keys
    /\ MaxPresses \in Nat

Controls == {"shift_down", "shift_up", "break", "page", "unmapped"}

Codes == Keys \cup Controls

Slots == 0 .. KBUF_SIZE - 1

VARIABLES
    boot,           \* "idt", "reset" or "ready": how far init_keyboard is
    wire,           \* codes the keyboard has yet to give to the controller
    port,           \* the code port 0x60 holds, or None
    irq,            \* IRQ 1 is latched in the PIC
    kbuf, r_ptr, w_ptr, g_shift,
    answer,         \* what the last read returned
    presses,        \* codes sent so far
    typed,          \* history: characters the handler was given
    got,            \* history: characters read
    overrun         \* history: a character came when the ring was full

vars == <<boot, wire, port, irq, kbuf, r_ptr, w_ptr, g_shift, answer, presses,
          typed, got, overrun>>

ring == <<kbuf, r_ptr, w_ptr>>
device == <<wire, port, irq, presses>>

Chars == Keys \X BOOLEAN

Init ==
    /\ boot = "idt"
    /\ wire = <<>>
    /\ port = None
    /\ irq = FALSE
    /\ kbuf = [i \in Slots |-> None]
    /\ r_ptr = 0
    /\ w_ptr = 0
    /\ g_shift = FALSE
    /\ answer = None
    /\ presses = 0
    /\ typed = <<>>
    /\ got = <<>>
    /\ overrun = FALSE

\* The next slot of the ring.
NextSlot(i) == (i + 1) % KBUF_SIZE

\* The characters of a ring between its two pointers, oldest first.
RingContents(buf, r, w) ==
    [k \in 1 .. ((w - r) % KBUF_SIZE) |-> buf[(r + k - 1) % KBUF_SIZE]]

Contents == RingContents(kbuf, r_ptr, w_ptr)

-----------------------------------------------------------------------------
(* The hardware.  A code moves to the output buffer when that is empty,    *)
(* and that edge raises the interrupt; there is no other edge until port   *)
(* 0x60 is read.                                                           *)

press(code) ==
    /\ presses < MaxPresses
    /\ presses' = presses + 1
    /\ wire' = Append(wire, code)
    /\ UNCHANGED <<boot, port, irq, ring, g_shift, answer, typed, got, overrun>>

controller ==
    /\ port = None
    /\ wire # <<>>
    /\ port' = Head(wire)
    /\ wire' = Tail(wire)
    /\ irq' = TRUE
    /\ UNCHANGED <<boot, ring, g_shift, answer, presses, typed, got, overrun>>

-----------------------------------------------------------------------------
(* The handler.                                                            *)

Kmap(key) == <<key, g_shift /\ key \in Cased>>

\* Mutant: the last slot is used as well.
FullMutant == FALSE

\* One slot stays empty, to tell a full ring from an empty one.
Full == NextSlot(w_ptr) = r_ptr

Store(c) ==
    /\ kbuf' = [kbuf EXCEPT ![w_ptr] = c]
    /\ w_ptr' = NextSlot(w_ptr)
    /\ UNCHANGED r_ptr

\* A character that finds the ring full is dropped.
handle_key(key) ==
    /\ typed' = Append(typed, Kmap(key))
    /\ overrun' = (overrun \/ Len(Contents) = KBUF_SIZE - 1)
    /\ IF Full THEN UNCHANGED ring ELSE Store(Kmap(key))
    /\ UNCHANGED g_shift

\* Shift sets or clears the state; break codes, keys without a character and
\* the paging keys, which scroll the console, leave the driver as it is.
handle_control(code) ==
    /\ g_shift' = CASE code = "shift_down" -> TRUE
                    [] code = "shift_up" -> FALSE
                    [] OTHER -> g_shift
    /\ UNCHANGED <<ring, typed, overrun>>

\* Mutant: the handler is in place before the pointers are reset.
RegisteredMutant == TRUE

Registered == boot = "ready"

\* Mutant: a break code is ignored before port 0x60 is read.
keyboard_handler_mutant ==
    /\ irq
    /\ Registered
    /\ irq' = FALSE
    /\ port' = IF port = "break" THEN port ELSE None
    /\ IF port \in Keys THEN handle_key(port) ELSE handle_control(port)
    /\ UNCHANGED <<boot, wire, answer, presses, got>>

keyboard_handler ==
    /\ irq
    /\ Registered
    /\ irq' = FALSE
    /\ port' = None
    /\ IF port \in Keys THEN handle_key(port) ELSE handle_control(port)
    /\ UNCHANGED <<boot, wire, answer, presses, got>>

\* isr_handler acknowledges an interrupt nobody registered for, and no more.
unhandled_irq ==
    /\ irq
    /\ ~Registered
    /\ irq' = FALSE
    /\ UNCHANGED <<boot, wire, port, ring, g_shift, answer, presses, typed, got, overrun>>

-----------------------------------------------------------------------------
(* init_keyboard, interrupted or not.                                      *)

init_keyboard_reset ==
    /\ boot = "idt"
    /\ r_ptr' = 0
    /\ w_ptr' = 0
    /\ boot' = "reset"
    /\ UNCHANGED <<device, kbuf, g_shift, answer, typed, got, overrun>>

init_keyboard_register ==
    /\ boot = "reset"
    /\ boot' = "ready"
    /\ UNCHANGED <<device, ring, g_shift, answer, typed, got, overrun>>

-----------------------------------------------------------------------------
(* SYS_READ of file descriptor 0, through keyboard_get_char.               *)

\* The read pointer after a character is taken.
Taken == NextSlot(r_ptr)

keyboard_get_char ==
    /\ boot = "ready"
    /\ \/ /\ r_ptr = w_ptr
          /\ answer' = None
          /\ UNCHANGED <<ring, got>>
       \/ /\ r_ptr # w_ptr
          /\ answer' = kbuf[r_ptr]
          /\ r_ptr' = Taken
          /\ got' = Append(got, kbuf[r_ptr])
          /\ UNCHANGED <<kbuf, w_ptr>>
    /\ UNCHANGED <<boot, device, g_shift, typed, overrun>>

Next ==
    \/ \E code \in Codes : press(code)
    \/ controller
    \/ keyboard_handler \/ unhandled_irq
    \/ init_keyboard_reset \/ init_keyboard_register
    \/ keyboard_get_char

Spec == Init /\ [][Next]_vars

\* The hardware and the CPU keep going; nobody has to press or read.
FairSpec ==
    /\ Spec
    /\ WF_vars(controller)
    /\ WF_vars(keyboard_handler \/ unhandled_irq)
    /\ WF_vars(init_keyboard_reset \/ init_keyboard_register)

-----------------------------------------------------------------------------
(* Properties.                                                             *)

\* Types: both pointers stay inside the ring.
TypeOK ==
    /\ boot \in {"idt", "reset", "ready"}
    /\ wire \in Seq(Codes)
    /\ port \in Codes \cup {None}
    /\ irq \in BOOLEAN
    /\ kbuf \in [Slots -> Chars \cup {None}]
    /\ r_ptr \in Slots
    /\ w_ptr \in Slots
    /\ g_shift \in BOOLEAN
    /\ answer \in Chars \cup {None}
    /\ presses \in Nat
    /\ typed \in Seq(Chars)
    /\ got \in Seq(Chars)
    /\ overrun \in BOOLEAN

\* As long as the ring never met a character with KBUF_SIZE - 1 already in it,
\* what was read, followed by what waits, is what was typed: the reset in
\* init_keyboard, the wrap of both pointers and the empty slot lose nothing,
\* repeat nothing and keep the order.
NothingLost == ~overrun => got \o Contents = typed

\* The driver is a bounded queue; after an overrun it still is one.
Queue == INSTANCE KeyQueue WITH
            queue <- Contents,
            Capacity <- KBUF_SIZE - 1

ImplementsKeyQueue == Queue!QSpec

\* Once the handler is registered with no code left over from before, every
\* code is taken from the controller, which would else be silent for ever:
\* no path through the handler leaves port 0x60 unread.
KeysGetThrough ==
    (Registered /\ (port = None \/ irq)) ~> (wire = <<>> /\ port = None)

-----------------------------------------------------------------------------
\* README.md:1305: every key pressed makes the controller interrupt the CPU
\* and the driver read port 0x60.  A code that arrives between the sti of
\* idt_init and the registration is acknowledged and never read, and the
\* controller raises no further interrupt.
EveryKeyIsRead == (port # None) ~> (port = None)
=============================================================================

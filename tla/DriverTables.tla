----------------------------- MODULE DriverTables -----------------------------
(***************************************************************************)
(* What the module_init and module_exit functions of the drivers obtain    *)
(* from the kernel and give back, in the order of the code.  The steps of  *)
(* a keyboard's connect and disconnect callbacks have the same shape.      *)
(*                                                                         *)
(* Resources: "region" (alloc_chrdev_region), "class" (class_create),      *)
(* "device" (device_create), "cdev" (cdev_add), "misc" (misc_register),    *)
(* "proc" (proc_create), "handler" (input_register_handler), a pin         *)
(* (gpio_request), ...  "led_on" and "led_off" are no resources but set    *)
(* the LED.  unregister_chrdev is no step: given a device number in the    *)
(* place of a major number, it finds nothing to release.                   *)
(***************************************************************************)
EXTENDS Naturals, Sequences

Step(kind, res) == [kind |-> kind, res |-> res, undo |-> <<>>, when |-> {}]

\* Obtain res; if the kernel refuses it, release undo in that order and fail.
Try(res, undo) == [Step("try", res) EXCEPT !.undo = undo]

\* Obtain res; the failure is not tested for, or the test can never be true
\* (class_create and device_create return an error pointer, never NULL;
\* cdev_add and i2c_add_driver return an error number that is not -1).
Ignored(res) == Step("ignored", res)

\* Obtain res, which is never refused: a timer or a work that is armed.
Take(res) == Step("take", res)

\* A call that obtains nothing and may fail.
Check(undo) == [Step("check", "nothing") EXCEPT !.undo = undo]

\* Such a call that also sets the LED: gpio_direction_output.
Output(value, undo) == [Check(undo) EXCEPT !.res = value]

\* An initialisation that cannot fail and that nothing has to undo.
Ready(res) == Step("ready", res)

\* A release in the course of init.
Give(res) == Step("give", res)

\* What res points to is used without a test: if it was refused, init crashes.
Use(res) == Step("use", res)

\* A step that is only taken when the named resource has been obtained.
If(res, step) == [step EXCEPT !.when = {res}]

\* An operator named X_m... is wrong on purpose: it is what a plausible slip
\* would make of X, and shows that a property notices.  No driver uses it.

-----------------------------------------------------------------------------
(* mutex_sleep_ioctl_exercise *)

gold_init == << Try("region", <<>>),
                Try("cdev", <<"region">>),
                Try("class", <<"cdev", "region">>),
                Try("device", <<"class", "cdev", "region">>),
                Ready("lock"),
                Ready("queues"),
                Ready("ring") >>

gold_exit_mForgetsNumbers == <<"device", "class", "cdev">>
gold_exit == <<"device", "class", "cdev", "region">>

fixed_init == << Try("region", <<>>),
                 Try("cdev", <<"region">>),
                 Try("class", <<"cdev", "region">>),
                 Try("device", <<"class", "cdev", "region">>),
                 Ready("queues") >>
fixed_exit == <<"device", "class", "cdev", "region">>

buggy_init == << Ignored("region"), Ignored("cdev"), Ignored("class"), Ignored("device"),
                 Ready("lock"), Ready("queues") >>
buggy_exit == <<"device", "class", "cdev", "region">>

-----------------------------------------------------------------------------
(* The character device labs: one skeleton, copied from lab to lab. *)

LabSkeleton == << Try("region", <<>>), Ignored("class"), Ignored("device"), Ignored("cdev") >>

\* What the labels from AddError on release.
AddError == <<"device", "class">>

mouette_init == LabSkeleton
mouette_exit == <<"cdev", "device", "class">>

read_write_init == Append(LabSkeleton, Ready("length"))
read_write_exit == <<"cdev", "device", "class">>

sleepy_init == Append(LabSkeleton, Ready("queues"))
sleepy_exit == <<"cdev", "device", "class">>

mutex_init == Append(LabSkeleton, Ready("lock"))
mutex_exit == <<"cdev", "device", "class">>

\* A kmalloc that fails is noticed by the writes.
leaky_init == Append(LabSkeleton, Ignored("buffer"))
leaky_exit == <<"buffer", "cdev", "device", "class">>

gpio_init == LabSkeleton \o << Try("led", <<"cdev">> \o AddError),
                               Output("led_on", <<"led", "cdev">> \o AddError) >>
gpio_exit == <<"led_off", "led", "cdev", "device", "class">>

Pins == <<"rs", "rw", "enable", "d0", "d1", "d2", "d3", "d4", "d5", "d6", "d7">>
Reversed(seq) == [i \in 1 .. Len(seq) |-> seq[Len(seq) + 1 - i]]

\* GPIORequestError frees the pins from the one that was refused downwards.
lcd_init ==
    LET undo(i) == <<"cdev">> \o Reversed(SubSeq(Pins, 1, i)) \o AddError
    IN  LabSkeleton \o [i \in 1 .. Len(Pins) |-> Try(Pins[i], undo(i))]
                    \o [i \in 1 .. Len(Pins) |-> Check(undo(Len(Pins)))]
lcd_exit == Pins \o <<"cdev", "device", "class">>

\* The adapter is given back once the client is there; no client, no driver, but
\* init then talks to the client all the same.
eeprom_init == LabSkeleton \o << Ignored("adapter"),
                                 If("adapter", Ignored("client")),
                                 If("client", Ignored("i2c_driver")),
                                 If("adapter", Give("adapter")),
                                 Use("client") >>
eeprom_exit == <<"client", "i2c_driver", "cdev", "device", "class">>

mcp_init == LabSkeleton \o << Ignored("adapter"),
                              If("adapter", Ignored("client")),
                              If("client", Ignored("i2c_driver")),
                              If("adapter", Give("adapter")),
                              Use("client") >>
mcp_exit == <<"client", "i2c_driver", "cdev", "device", "class">>

-----------------------------------------------------------------------------
(* kmalloc_vs_vmalloc: an array of pointers to blocks, here two.  A block is    *)
(* requested as a whole ("block1", whose pointer is not NULL, stands for both   *)
(* halves), unless the one before it was refused; then the lower half of each   *)
(* is freed, and the test allocates and frees.  Exit frees both halves of every *)
(* block whose pointer is not NULL.                                             *)

fragment_memory == << Try("array", <<>>),
                      Ignored("block1"), If("block1", Take("low1")), If("block1", Take("high1")),
                      If("block1", Ignored("block2")),
                      If("block2", Take("low2")), If("block2", Take("high2")),
                      If("block1", Give("low1")), If("block2", Give("low2")) >>
run_test == << Ignored("kptr"), If("kptr", Give("kptr")),
               Ignored("vptr"), If("vptr", Give("vptr")) >>
demo_init == fragment_memory \o run_test
demo_exit == <<"low1", "high1", "low2", "high2", "block1", "block2", "array">>

BlockOf == [low1 |-> "block1", high1 |-> "block1", low2 |-> "block2", high2 |-> "block2"]

-----------------------------------------------------------------------------
(* GPIO_irq: a refused LED is reported and init goes on. *)

irq_init == << Ignored("led"),
               Output("led_off", <<"led">>),
               Try("button", <<"led">>),
               Check(<<"button", "led">>),
               Try("irq", <<"button", "led">>) >>
irq_exit == <<"irq", "led_off", "led", "button">>

-----------------------------------------------------------------------------
(* Pocket_monster *)

kernel_monster_init_mBornLate == << Try("proc", <<>>), Ready("monster"), Take("work") >>
kernel_monster_init == << Ready("monster"),
                          Try("proc", <<>>),
                          Take("work") >>
kernel_monster_exit == <<"work", "proc">>

-----------------------------------------------------------------------------
(* Keyboard_monitor *)

kbdmon_init == << Try("handler", <<>>) >>
kbdmon_exit == <<"handler">>

timing_init == << Try("handler", <<>>) >>
timing_exit == <<"handler">>

sequence_init == << Try("handler", <<>>) >>
sequence_exit == <<"handler">>

\* The result of misc_register is ignored.
kbdmon_chrdev_init == << Ignored("misc"), Try("handler", <<>>) >>
kbdmon_chrdev_exit == <<"handler", "misc">>

\* The timer is armed first and stays armed if the handler is refused.
keylogger_init == << Ready("timer_fn"), Take("timer"), Try("handler", <<>>) >>
keylogger_exit == <<"timer", "handler">>

\* kbdmon_connect, and kbdmon_disconnect when the keyboard is unplugged.
connection_connect == << Try("kbd", <<>>),
                         Try("handle", <<"kbd">>),
                         Try("open", <<"handle", "kbd">>) >>
connection_disconnect == <<"open", "handle", "kbd">>

keylogger_connect == << Ignored("kbd"), Use("kbd"), Ignored("handle"), Ignored("open") >>
keylogger_disconnect == <<"open", "handle", "kbd">>
=============================================================================

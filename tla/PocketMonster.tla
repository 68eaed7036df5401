---------------------------- MODULE PocketMonster ----------------------------
(***************************************************************************)
(* Pocket_monster/pocket_monster.c: a delayed work ages the monster every  *)
(* second and schedules itself again, /proc/kernel_monster prints it field *)
(* by field without a lock, rmmod cancels the work and removes the file.   *)
(* The compiler may put the stores of monster_tick in any order up to the  *)
(* first call that could look at them.                                     *)
(***************************************************************************)
EXTENDS Integers

CONSTANTS Parameters,   \* the <<hunger, energy>> given to insmod
          MaxTicks,     \* bound: the age the monster comes to
          MaxPerRead    \* bound: the ticks that begin while /proc is printed

ASSUME MonsterAssumption == /\ Parameters \subseteq Int \X Int
                            /\ MaxTicks \in Nat
                            /\ MaxPerRead \in Nat

VARIABLES hunger, energy, age, mood,    \* struct kernel_monster
          phase,        \* "init", "loaded", "cancelling", "removing", "gone"
          work,         \* monster_work: "none", "pending", or the handler's point
          todo,         \* the stores the handler still has to do
          show,         \* the next field that a read prints, or "idle"
          shown,        \* what it has printed
          first,        \* the parameters, clamped
          ticks,        \* (not in the code) the ticks that are done
          since         \* (not in the code) the same when the read began

monster == <<hunger, energy, age, mood>>
reader == <<show, shown, since>>
monsterVars == <<monster, phase, work, todo, reader, first, ticks>>

clamp_value(value, min, max) == IF value < min THEN min ELSE IF value > max THEN max ELSE value

\* update_mood
Mood(h, e) == CASE e < 20 -> "sleepy"
                [] e >= 20 /\ h > 80 -> "angry"
                [] e >= 20 /\ h \in 51 .. 80 -> "hungry"
                [] OTHER -> "happy"

Fields == {"age", "hunger", "energy", "mood"}

MonsterInit == \E p \in Parameters :
            /\ hunger = clamp_value(p[1], 0, 100)
            /\ energy = clamp_value(p[2], 0, 100)
            /\ age = 0
            /\ mood = Mood(hunger, energy)
            /\ phase = "init"
            /\ work = "none"
            /\ todo = {}
            /\ show = "idle"
            /\ shown = [f \in Fields |-> 0]
            /\ first = <<hunger, energy>>
            /\ ticks = 0
            /\ since = 0

\* An operator named X_m... is wrong on purpose: it is what a plausible slip
\* would make of X, and shows that a property notices.  No action uses it.

-----------------------------------------------------------------------------
(* monster_work_handler *)

Ticking == work \in {"tick", "mood"}

WorkBegin == /\ work = "pending"
             /\ ticks < MaxTicks
             /\ show # "idle" => ticks - since < MaxPerRead
             /\ work' = "tick"
             /\ todo' = {"age", "hunger", "energy", "clamp_hunger", "clamp_energy"}
             /\ UNCHANGED <<monster, phase, reader, first, ticks>>

\* One store of monster_tick.
TickStore(f) ==
    /\ work = "tick"
    /\ f \in todo
    /\ todo' = todo \ {f}
    /\ \/ /\ f = "age"
          /\ age' = age + 1
          /\ UNCHANGED <<hunger, energy>>
       \/ /\ f = "hunger"
          /\ hunger' = hunger + 10
          /\ UNCHANGED <<age, energy>>
       \/ /\ f = "energy"
          /\ energy' = energy - 5
          /\ UNCHANGED <<age, hunger>>
       \/ /\ f = "clamp_hunger" /\ "hunger" \notin todo
          /\ hunger' = clamp_value(hunger, 0, 100)
          /\ UNCHANGED <<age, energy>>
       \/ /\ f = "clamp_energy" /\ "energy" \notin todo
          /\ energy' = clamp_value(energy, 0, 100)
          /\ UNCHANGED <<age, hunger>>
    /\ UNCHANGED <<mood, phase, work, reader, first, ticks>>

\* strscpy copies the new mood over the old one.
TickMoodBegin == /\ work = "tick"
                 /\ todo = {}
                 /\ mood' = IF mood = Mood(hunger, energy) THEN mood ELSE "mixed"
                 /\ work' = "mood"
                 /\ UNCHANGED <<hunger, energy, age, phase, todo, reader, first, ticks>>

\* The mood is that of the values before they were clamped.
TickMoodEnd_mUnclamped == /\ work = "mood"
                          /\ mood' = Mood(hunger, energy - 5)
                          /\ ticks' = ticks + 1
                          /\ work' = "rearm"
                          /\ UNCHANGED <<hunger, energy, age, phase, todo, reader, first>>

TickMoodEnd == /\ work = "mood"
               /\ mood' = Mood(hunger, energy)
               /\ ticks' = ticks + 1
               /\ work' = "rearm"
               /\ UNCHANGED <<hunger, energy, age, phase, todo, reader, first>>

\* schedule_delayed_work, which does nothing once the work is being cancelled.
WorkRearm == /\ work = "rearm"
             /\ work' = IF phase = "cancelling" THEN "none" ELSE "pending"
             /\ UNCHANGED <<monster, phase, todo, reader, first, ticks>>

monster_work_handler == WorkBegin \/ TickMoodBegin \/ TickMoodEnd \/ WorkRearm
                        \/ \E f \in todo : TickStore(f)

-----------------------------------------------------------------------------
(* monster_proc_show *)

ShowBegin == /\ show = "idle"
             /\ phase \in {"init", "loaded", "cancelling"}
             /\ show' = "age"
             /\ since' = ticks
             /\ UNCHANGED <<monster, phase, work, todo, shown, first, ticks>>

Show(f, value, next) == /\ show = f
                        /\ shown' = [shown EXCEPT ![f] = value]
                        /\ show' = next
                        /\ UNCHANGED <<monster, phase, work, todo, since, first, ticks>>

\* The module parameter of the same name, not the field.
ShowHunger_mParameter == Show("hunger", first[1], "energy")
ShowHunger == Show("hunger", hunger, "energy")

monster_proc_show == \/ Show("age", age, "hunger")
                     \/ ShowHunger
                     \/ Show("energy", energy, "mood")
                     \/ Show("mood", mood, "end")

ShowEnd == /\ show = "end"
           /\ show' = "idle"
           /\ shown' = [f \in Fields |-> 0]
           /\ since' = 0
           /\ UNCHANGED <<monster, phase, work, todo, first, ticks>>

-----------------------------------------------------------------------------
(* Init and exit; /proc/kernel_monster is there before the work is scheduled. *)

kernel_monster_init == /\ phase = "init"
                       /\ phase' = "loaded"
                       /\ work' = "pending"
                       /\ UNCHANGED <<monster, todo, reader, first, ticks>>

ExitCancel_mNoSync ==
    /\ phase = "loaded"
    /\ phase' = "removing"
    /\ work' = IF work = "pending" THEN "none" ELSE work
    /\ UNCHANGED <<monster, todo, reader, first, ticks>>

\* cancel_delayed_work_sync takes a pending work off its timer; a handler that
\* runs cannot schedule itself again,
ExitCancel == /\ phase = "loaded"
              /\ phase' = "cancelling"
              /\ work' = IF work = "pending" THEN "none" ELSE work
              /\ UNCHANGED <<monster, todo, reader, first, ticks>>

\* and is waited for.
ExitCancelled == /\ phase = "cancelling"
                 /\ work = "none"
                 /\ phase' = "removing"
                 /\ UNCHANGED <<monster, work, todo, reader, first, ticks>>

\* proc_remove waits for a read in progress.
ExitRemove == /\ phase = "removing"
              /\ show = "idle"
              /\ phase' = "gone"
              /\ UNCHANGED <<monster, work, todo, reader, first, ticks>>

kernel_monster_exit == ExitCancel \/ ExitCancelled \/ ExitRemove

MonsterNext == \/ monster_work_handler
               \/ ShowBegin \/ monster_proc_show \/ ShowEnd
               \/ kernel_monster_init \/ kernel_monster_exit

MonsterSpec == MonsterInit /\ [][MonsterNext]_monsterVars

-----------------------------------------------------------------------------
(* Properties *)

\* The monster after n ticks.
HungerAfter(n) == clamp_value(first[1] + 10 * n, 0, 100)
EnergyAfter(n) == clamp_value(first[2] - 5 * n, 0, 100)
MoodAfter(n) == Mood(HungerAfter(n), EnergyAfter(n))

\* Outside a tick, the monster is what that many ticks make of its parameters:
\* clamping at every tick comes to the same as clamping once, and the mood goes
\* with the values that are shown beside it.
RestState == ~Ticking => /\ age = ticks
                         /\ hunger = HungerAfter(ticks)
                         /\ energy = EnergyAfter(ticks)
                         /\ mood = MoodAfter(ticks)

\* The fields that a read of /proc prints may come from different ticks, and a
\* value may be one that is not clamped yet or a mood half overwritten, but each is
\* of a tick between the last one before the read and the one in progress at its
\* end: nothing older, nothing that never was.
ReadIsOfItsTime ==
    LET now == IF Ticking THEN ticks + 1 ELSE ticks
        span == since .. now
    IN  show = "end" =>
          /\ shown["age"] \in span
          /\ \E n \in span : \/ shown["hunger"] = HungerAfter(n)
                             \/ n < now /\ shown["hunger"] = HungerAfter(n) + 10
          /\ \E n \in span : \/ shown["energy"] = EnergyAfter(n)
                             \/ n < now /\ shown["energy"] = EnergyAfter(n) - 5
          /\ \E n \in span : \/ shown["mood"] = MoodAfter(n)
                             \/ /\ n < now
                                /\ MoodAfter(n) # MoodAfter(n + 1)
                                /\ shown["mood"] = "mixed"

\* Once rmmod has returned, the handler neither runs nor will run, although it
\* schedules itself again each time and may be doing so when rmmod comes.
NothingRunsOnceGone == phase \in {"removing", "gone"} => work = "none"
=============================================================================

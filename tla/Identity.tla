------------------------------ MODULE Identity ------------------------------
(***************************************************************************)
(* runtime.cpp (the debugger's worker) and runtime_gdb.cpp: which process  *)
(* is meant.  The kernel reuses process numbers; a process forks, runs     *)
(* another image and exits; the debugger reports this in a queue, reads    *)
(* ahead of what it has reported, and looks at one process at a time.  The *)
(* worker makes identities of all this: of a process, its address space,   *)
(* its modules and its threads.                                            *)
(*                                                                         *)
(* Processes are numbered in the order they start.  Each has one thread,   *)
(* with the process's number for the kernel, and maps the image it runs,   *)
(* which a fork's child has at its parent's place.  minted says what each  *)
(* identity was made for; the code does not know.                          *)
(***************************************************************************)
EXTENDS Integers, FiniteSets, FiniteSetsExt, SequencesExt

CONSTANTS
  Pids,
  Images,       \* images a process may run, 1 the first
  MaxProcesses  \* bound of a run: processes that start

VARIABLES
  os,      \* the processes: number, image, whether alive
  gdb,     \* GdbRuntime: groups_, events_, pid_, alive_, stopped_
  worker   \* the session's record, its contexts, and what was observed
vars == <<os, gdb, worker>>

-----------------------------------------------------------------------------
(* The debugger.                                                           *)

Alive == {i \in DOMAIN os : os[i].alive}
Process(pid) == CHOOSE i \in Alive : os[i].pid = pid

Started(i) == [kind |-> "process_created", pid |-> os[i].pid]
Halt(kind, i) == [kind |-> kind, process |-> i]

\* What GDB prints, read at once, and reported by poll one by one.
Prints(events) == gdb' = [gdb EXCEPT !.queue = @ \o events, !.running = FALSE]

Init ==
  /\ os = <<[pid |-> Min(Pids), image |-> 1, alive |-> TRUE]>>
  /\ gdb = [queue |-> <<Started(1), Halt("debug_event", 1)>>,
            current |-> 1, alive |-> TRUE, stopped |-> FALSE, running |-> FALSE]
  /\ worker = [pid |-> Min(Pids), exited |-> FALSE,
               now |-> [process |-> 1, space |-> 2, modules |-> {}, threads |-> {}],
               contexts |-> <<>>,
               minted |-> <<[kind |-> "process", of |-> 1, image |-> 0], [kind |-> "space", of |-> 1, image |-> 1]>>,
               retired |-> <<>>]

Fork(i, pid) ==
  /\ gdb.running /\ i \in Alive
  /\ Len(os) < MaxProcesses
  /\ pid \notin {os[j].pid : j \in Alive}
  /\ os' = Append(os, [pid |-> pid, image |-> os[i].image, alive |-> TRUE])
  /\ Prints(<<[kind |-> "process_created", pid |-> pid], Halt("debug_event", i)>>)
  /\ UNCHANGED worker

Exec(i) ==
  /\ gdb.running /\ i \in Alive
  /\ os[i].image + 1 \in Images
  /\ os' = [os EXCEPT ![i].image = @ + 1]
  /\ Prints(<<Halt("exec", i)>>)
  /\ UNCHANGED worker

Hit(i) ==
  /\ gdb.running /\ i \in Alive
  /\ Prints(<<Halt("debug_event", i)>>)
  /\ UNCHANGED <<os, worker>>

Exit(i) ==
  /\ gdb.running /\ i \in Alive
  /\ os' = [os EXCEPT ![i].alive = FALSE]
  /\ Prints(<<[kind |-> "process_lifetime_exited", pid |-> os[i].pid], Halt("exited", i)>>)
  /\ UNCHANGED worker

\* pid_ after an event.  After an exit it is the first group that is left.
Polled(e) ==
  IF e.kind \in {"process_created", "process_lifetime_exited"} THEN [gdb EXCEPT !.queue = Tail(@)]
  ELSE IF e.kind = "exited"
    THEN [gdb EXCEPT !.queue = Tail(@), !.alive = Alive # {}, !.stopped = Alive # {},
                     !.current = IF Alive = {} THEN @ ELSE Min(Alive)]
    ELSE [gdb EXCEPT !.queue = Tail(@), !.stopped = TRUE, !.current = e.process]

-----------------------------------------------------------------------------
(* The worker.  Each operator takes its state and gives the next.          *)

Mint(w, kind, i, image) == [w EXCEPT !.minted = Append(@, [kind |-> kind, of |-> i, image |-> image])]
Newest(w) == Len(w.minted)

\* A context nothing is known of yet: a new process and address space.
Fresh(w, i) ==
  LET w1 == Mint(w, "process", i, 0)
      w2 == Mint(w1, "space", i, os[i].image)
  IN <<w2, [process |-> Newest(w1), space |-> Newest(w2), modules |-> {}, threads |-> {}]>>

Retire(w, pid) == [w EXCEPT !.retired = Append(@, w.contexts[pid].process)]

\* process_created: the session's own process, or a new one, which takes the
\* place of whatever had its number.
Created(w, pid) ==
  IF pid = w.pid THEN [w EXCEPT !.contexts = (pid :> w.now) @@ @]
  ELSE LET w1 == IF pid \in DOMAIN w.contexts THEN Retire(w, pid) ELSE w
           fresh == Fresh(w1, Process(pid))
       IN [fresh[1] EXCEPT !.contexts = (pid :> fresh[2]) @@ @]

\* process_lifetime_exited.
Exited(w, pid) ==
  LET w1 == IF pid \in DOMAIN w.contexts
            THEN [Retire(w, pid) EXCEPT !.contexts = [p \in DOMAIN @ \ {pid} |-> @[p]]] ELSE w
  IN [w1 EXCEPT !.exited = @ \/ pid = w.pid]

\* select_context: the process that is left keeps what is known of it, unless
\* it has exited; the other one's is taken up.
Selected(w, i) ==
  LET w1 == IF w.exited THEN w ELSE [w EXCEPT !.contexts = (w.pid :> w.now) @@ @]
      pid == os[i].pid
      fresh == IF pid \in DOMAIN w1.contexts THEN <<w1, w1.contexts[pid]>> ELSE Fresh(w1, i)
  IN [fresh[1] EXCEPT !.contexts = (pid :> fresh[2]) @@ @, !.now = fresh[2], !.pid = pid, !.exited = FALSE]

\* exec: a new address space, with no modules yet.
Replaced(w, i) ==
  LET w1 == Mint(w, "space", i, os[i].image)
  IN [w1 EXCEPT !.now.space = Newest(w1), !.now.modules = {}]

\* refresh_modules, the modules: one that was there before keeps its identity.
WithModules(w, i) ==
  LET kept == {m \in w.now.modules : m.image = os[i].image}
      w1 == IF kept = {} THEN Mint(w, "module", i, os[i].image) ELSE w
  IN [w1 EXCEPT !.now.modules = IF kept = {} THEN {[image |-> os[i].image, id |-> Newest(w1)]} ELSE kept]

\* refresh_modules, the threads: every thread GDB has, of whatever process.
WithThreads(w) ==
  LET kept == {t \in w.now.threads : t.thread \in {os[i].pid : i \in Alive}}
      new == SelectSeq([i \in DOMAIN os |-> i], LAMBDA i : i \in Alive /\ ~\E t \in kept : t.thread = os[i].pid)
  IN [w EXCEPT !.now.threads = kept \cup {[thread |-> os[new[k]].pid, id |-> Newest(w) + k] : k \in DOMAIN new},
               !.minted = @ \o [k \in DOMAIN new |-> [kind |-> "thread", of |-> new[k], image |-> 0]]]

Refreshed(w, i) == WithThreads(WithModules(w, i))

\* What an event does: identities first, then the process that is looked at,
\* then what the event says of that process, then its modules and threads.
After(w, e) ==
  LET g == Polled(e)
      w0 == CASE e.kind = "process_created" -> Created(w, e.pid)
              [] e.kind = "process_lifetime_exited" -> Exited(w, e.pid)
              [] OTHER -> w
      w1 == IF g.stopped /\ os[g.current].pid # w0.pid THEN Selected(w0, g.current) ELSE w0
      w2 == IF e.kind = "exec" THEN Replaced(w1, g.current) ELSE w1
  IN IF g.stopped THEN Refreshed(w2, g.current) ELSE w2

Poll ==
  /\ gdb.queue # <<>>
  /\ gdb' = Polled(Head(gdb.queue))
  /\ worker' = After(worker, Head(gdb.queue))
  /\ UNCHANGED os

\* select-process: a stopped session looks at another process.
SelectProcess(i) ==
  /\ gdb.stopped /\ gdb.queue = <<>>
  /\ i \in Alive
  /\ gdb' = [gdb EXCEPT !.current = i]
  /\ worker' = Refreshed(Selected(worker, i), i)
  /\ UNCHANGED os

Continue ==
  /\ gdb.stopped
  /\ gdb' = [gdb EXCEPT !.stopped = FALSE, !.running = TRUE]
  /\ UNCHANGED <<os, worker>>

Next ==
  \/ \E i \in DOMAIN os : \/ \E pid \in Pids : Fork(i, pid)
                          \/ Exec(i) \/ Hit(i) \/ Exit(i) \/ SelectProcess(i)
  \/ Poll \/ Continue

Spec == Init /\ [][Next]_vars

-----------------------------------------------------------------------------
(* Properties.                                                             *)

Minted(kind) == {n \in DOMAIN worker.minted : worker.minted[n].kind = kind}
Of(n) == worker.minted[n].of
Settled == gdb.stopped /\ gdb.queue = <<>>

\* Types: an identity is used as what it was made for.
TypeOK ==
  /\ worker.pid \in Pids
  /\ DOMAIN worker.contexts \subseteq Pids
  /\ \A c \in {worker.now} \cup {worker.contexts[p] : p \in DOMAIN worker.contexts} :
       /\ c.process \in Minted("process") /\ c.space \in Minted("space")
       /\ \A m \in c.modules : m.id \in Minted("module")
       /\ \A t \in c.threads : t.id \in Minted("thread")

\* When the session is stopped, its identities are those of the process that
\* is looked at, with the image it runs now, and every other context is that
\* of the live process with its number, whoever had the number before.
\* Code: poll, select_context, refresh_modules.
IdentityIsTrue ==
  Settled =>
    LET Fits(c, i) == /\ Of(c.process) = i
                      /\ Of(c.space) = i /\ worker.minted[c.space].image = os[i].image
                      /\ \A m \in c.modules : Of(m.id) = i /\ worker.minted[m.id].image = os[i].image
    IN /\ Fits(worker.now, gdb.current)
       /\ \A p \in DOMAIN worker.contexts \ {worker.pid} :
            \E i \in Alive : os[i].pid = p /\ Fits(worker.contexts[p], i)

\* A process, an address space and a module of it get one identity each, which
\* they keep while the session looks at other processes.
\* Code: select_context; docs/runtime-workbench-progress.md:16.
OneIdentityEach ==
  \A kind \in {"process", "space", "module"} :
    \A m, n \in Minted(kind) : worker.minted[m] = worker.minted[n] => m = n

\* A process's identity is retired once, after the process has exited, and
\* none that exited is forgotten.
\* Code: poll, process_created and process_lifetime_exited.
RetiredOnce ==
  /\ IsInjective(worker.retired)
  /\ \A n \in ToSet(worker.retired) : ~os[Of(n)].alive
  /\ gdb.queue = <<>> =>
       \A i \in DOMAIN os \ Alive : \E n \in ToSet(worker.retired) : Of(n) = i
==============================================================================

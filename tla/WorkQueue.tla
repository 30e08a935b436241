----------------------------- MODULE WorkQueue -----------------------------
(***************************************************************************)
(* The threads of the GTK client: pymayhem/webthread.py gives each host a  *)
(* worker thread with a queue, a lock and an event; requests are pushed by *)
(* the GTK thread from inside its handlers, when it has GDK's global lock, *)
(* and by workers from inside the callback of another request; callbacks   *)
(* take GDK's lock themselves (wmclient 386-397, 605-615).                 *)
(*                                                                         *)
(* A step is what a thread does up to its next access to something that is *)
(* shared.  A section under a queue's lock is one step, after the one that *)
(* takes the lock.  A thread that an exception ends keeps the locks it has *)
(* taken: nothing is released on the way out.                              *)
(***************************************************************************)
EXTENDS Naturals, Sequences

CONSTANTS
    Hosts,                  \* (host name, port) pairs the URLs lead to
    Site,                   \* the host of the list and of the pages
    Conns,                  \* bound: the WebConn objects that may be created
    MaxClicks, MaxImages    \* bounds: clicks of the user, images in a list

ASSUME SizesAssumption ==
    /\ Site \in Hosts /\ MaxClicks \in Nat /\ MaxImages \in Nat
ASSUME NamesAssumption == "gtk" \notin Conns /\ "nobody" \notin Conns

Gtk == "gtk"
Nobody == "nobody"          \* no thread, no WebConn
Threads == Conns \cup {Gtk} \* a WebConn is its own worker thread
Kinds == {"list", "image", "page"}

VARIABLES
    dict,                   \* WebThread.conn: host -> WebConn
    queue, event, lock,     \* of each WebConn: queue, wait, and who has its lock
    gdk,                    \* who has GDK's lock
    pc,                     \* where each thread is
    job,                    \* the kind of the request a worker has taken
    req,                    \* the request a thread is about to push
    left                    \* clicks to come, images a worker has still to ask for

vars == <<dict, queue, event, lock, gdk, pc, job, req, left>>

Request(kind, host) == [kind |-> kind, host |-> host, conn |-> Nobody]

Goto(t, where) == pc' = [pc EXCEPT ![t] = where]
At(t, where) == pc[t] = where

(* MainWin asks for the list before there is a main loop.  The argument of *)
(* Event(1) is its verbosity: it starts clear.                             *)
Init ==
    /\ dict = [h \in Hosts |-> Nobody] /\ queue = [c \in Conns |-> << >>]
    /\ event = [c \in Conns |-> FALSE] /\ lock = [c \in Conns |-> Nobody]
    /\ gdk = Nobody
    /\ pc = [t \in Threads |-> IF t = Gtk THEN "get" ELSE "unborn"]
    /\ job = [c \in Conns |-> "image"] /\ req = [t \in Threads |-> Request("list", Site)]
    /\ left = [t \in Threads |-> IF t = Gtk THEN MaxClicks ELSE 0]

-----------------------------------------------------------------------------
(* Pushing a request, by any thread: get_conn, then push.                  *)

(* WebThread.get_conn: the dictionary is read                              *)
GetConn(t) ==
    /\ At(t, "get")
    /\ LET c == dict[req[t].host]
       IN  /\ req' = [req EXCEPT ![t].conn = c]
           /\ Goto(t, IF c = Nobody THEN "create" ELSE "push")
    /\ UNCHANGED <<dict, queue, event, lock, gdk, job, left>>

(* WebConn(url) starts the worker and is entered in the dictionary,        *)
(* whatever another thread has entered there meanwhile.                    *)
CreateConn(t) ==
    /\ At(t, "create")
    /\ \E c \in Conns :
          /\ pc[c] = "unborn" /\ c = CHOOSE d \in Conns : pc[d] = "unborn"
          /\ dict' = [dict EXCEPT ![req[t].host] = c]
          /\ req' = [req EXCEPT ![t].conn = c]
          /\ pc' = [pc EXCEPT ![c] = "wait", ![t] = "push"]
    /\ UNCHANGED <<queue, event, lock, gdk, job, left>>

(* push: the lock                                                          *)
PushLock(t) ==
    /\ At(t, "push") /\ lock[req[t].conn] = Nobody
    /\ lock' = [lock EXCEPT ![req[t].conn] = t] /\ Goto(t, "append")
    /\ UNCHANGED <<dict, queue, event, gdk, job, req, left>>

PushAppend(t) ==
    /\ At(t, "append")
    /\ queue' = [queue EXCEPT ![req[t].conn] = Append(@, req[t].kind)]
    /\ lock' = [lock EXCEPT ![req[t].conn] = Nobody] /\ Goto(t, "set")
    /\ UNCHANGED <<dict, event, gdk, job, req, left>>

(* The event is set when the lock is free again.  Then a worker goes on    *)
(* with its list of images, the GTK thread leaves its handler.             *)
PushSet(t) ==
    /\ At(t, "set")
    /\ event' = [event EXCEPT ![req[t].conn] = TRUE]
    /\ IF t = Gtk
       THEN Goto(t, "loop") /\ gdk' = Nobody
       ELSE Goto(t, "images") /\ UNCHANGED gdk
    /\ UNCHANGED <<dict, queue, lock, job, req, left>>

-----------------------------------------------------------------------------
(* The GTK thread: a click opens a tab, which asks for its page.           *)
Click ==
    /\ At(Gtk, "loop") /\ left[Gtk] > 0 /\ gdk = Nobody
    /\ gdk' = Gtk /\ left' = [left EXCEPT ![Gtk] = @ - 1]
    /\ \E h \in Hosts : req' = [req EXCEPT ![Gtk] = Request("page", h)]
    /\ Goto(Gtk, "get")
    /\ UNCHANGED <<dict, queue, event, lock, job>>

-----------------------------------------------------------------------------
(* WorkQueue.run                                                           *)

Wait(c) ==
    /\ At(c, "wait") /\ event[c] /\ Goto(c, "lock")
    /\ UNCHANGED <<dict, queue, event, lock, gdk, job, req, left>>

RunLock(c) ==
    /\ At(c, "lock") /\ lock[c] = Nobody
    /\ lock' = [lock EXCEPT ![c] = c] /\ Goto(c, "pop")
    /\ UNCHANGED <<dict, queue, event, gdk, job, req, left>>

(* Mutant: the event is cleared whatever is left in the queue.             *)
PopClears(c) ==
    /\ At(c, "pop") /\ queue[c] # << >>
    /\ job' = [job EXCEPT ![c] = Head(queue[c])]
    /\ queue' = [queue EXCEPT ![c] = Tail(@)]
    /\ event' = [event EXCEPT ![c] = FALSE]
    /\ lock' = [lock EXCEPT ![c] = Nobody] /\ Goto(c, "work")
    /\ UNCHANGED <<dict, gdk, req, left>>

(* Mutant: the lock is kept while the request is done.                     *)
PopLocked(c) ==
    /\ At(c, "pop") /\ queue[c] # << >>
    /\ job' = [job EXCEPT ![c] = Head(queue[c])]
    /\ queue' = [queue EXCEPT ![c] = Tail(@)]
    /\ event' = [event EXCEPT ![c] = @ /\ Len(queue[c]) > 1]
    /\ Goto(c, "work")
    /\ UNCHANGED <<dict, lock, gdk, req, left>>

(* popleft, clear when that was the last, release                          *)
Pop(c) ==
    /\ At(c, "pop") /\ queue[c] # << >>
    /\ job' = [job EXCEPT ![c] = Head(queue[c])]
    /\ queue' = [queue EXCEPT ![c] = Tail(@)]
    /\ event' = [event EXCEPT ![c] = @ /\ Len(queue[c]) > 1]
    /\ lock' = [lock EXCEPT ![c] = Nobody] /\ Goto(c, "work")
    /\ UNCHANGED <<dict, gdk, req, left>>

(* popleft raises IndexError: the event was set once more, by a push whose *)
(* request had been taken already.                                         *)
PopNothing(c) ==
    /\ At(c, "pop") /\ queue[c] = << >> /\ Goto(c, "dead")
    /\ UNCHANGED <<dict, queue, event, lock, gdk, job, req, left>>

(* _do_work: the request fails, and the callback has nothing to do, or its *)
(* answer goes to the callback: images and pages need GDK's lock.          *)
DoWork(c) ==
    /\ At(c, "work")
    /\ \/ Goto(c, "wait") /\ UNCHANGED left
       \/ job[c] # "list" /\ Goto(c, "enter") /\ UNCHANGED left
       \/ /\ job[c] = "list" /\ Goto(c, "images")
          /\ \E n \in 0..MaxImages : left' = [left EXCEPT ![c] = n]
    /\ UNCHANGED <<dict, queue, event, lock, gdk, job, req>>

(* Mutant: asks for one image too many.                                    *)
NextImageMore(c) ==
    /\ At(c, "images")
    /\ left' = [left EXCEPT ![c] = @ - 1]
    /\ \E h \in Hosts : req' = [req EXCEPT ![c] = Request("image", h)]
    /\ Goto(c, "get")
    /\ UNCHANGED <<dict, queue, event, lock, gdk, job>>

(* get_girl_list's Closure asks for the image of each entry.               *)
NextImage(c) ==
    /\ At(c, "images") /\ left[c] > 0
    /\ left' = [left EXCEPT ![c] = @ - 1]
    /\ \E h \in Hosts : req' = [req EXCEPT ![c] = Request("image", h)]
    /\ Goto(c, "get")
    /\ UNCHANGED <<dict, queue, event, lock, gdk, job>>

ListDone(c) ==
    /\ At(c, "images") /\ left[c] = 0 /\ Goto(c, "wait")
    /\ UNCHANGED <<dict, queue, event, lock, gdk, job, req, left>>

(* Mutant: comes back without leaving.                                     *)
ThreadsLeaveKept(c) ==
    /\ At(c, "leave") /\ Goto(c, "wait")
    /\ UNCHANGED <<dict, queue, event, lock, gdk, job, req, left>>

ThreadsEnter(c) ==
    /\ At(c, "enter") /\ gdk = Nobody
    /\ gdk' = c /\ Goto(c, "leave")
    /\ UNCHANGED <<dict, queue, event, lock, job, req, left>>

ThreadsLeave(c) ==
    /\ At(c, "leave") /\ gdk' = Nobody /\ Goto(c, "wait")
    /\ UNCHANGED <<dict, queue, event, lock, job, req, left>>

(* A callback raises: convert() lacks a variable, the HTML has no link,    *)
(* the picture cannot be read.                                             *)
Raise(c) ==
    /\ pc[c] \in {"work", "images", "leave"} /\ Goto(c, "dead")
    /\ UNCHANGED <<dict, queue, event, lock, gdk, job, req, left>>

-----------------------------------------------------------------------------
Push(t) == GetConn(t) \/ CreateConn(t) \/ PushLock(t) \/ PushAppend(t) \/ PushSet(t)

Run(c) ==
    \/ Wait(c) \/ RunLock(c) \/ Pop(c) \/ PopNothing(c) \/ DoWork(c)
    \/ NextImage(c) \/ ListDone(c) \/ ThreadsEnter(c) \/ ThreadsLeave(c)

Next ==
    \/ \E t \in Threads : Push(t)
    \/ \E c \in Conns : Run(c) \/ Raise(c)
    \/ Click

(* Fairness: every thread that can go on does, which for DoWork says that  *)
(* every request is answered or fails; nobody has to click.                *)
Spec ==
    Init /\ [][Next]_vars
    /\ \A t \in Threads : WF_vars(Push(t))
    /\ \A c \in Conns : WF_vars(Run(c))

-----------------------------------------------------------------------------
TypeOK ==
    /\ dict \in [Hosts -> Conns \cup {Nobody}] /\ queue \in [Conns -> Seq(Kinds)]
    /\ event \in [Conns -> BOOLEAN] /\ lock \in [Conns -> Threads \cup {Nobody}]
    /\ gdk \in Threads \cup {Nobody}
    /\ pc \in [Threads -> {"unborn", "get", "create", "push", "append", "set", "loop", "wait",
                           "lock", "pop", "work", "images", "enter", "leave", "dead"}]
    /\ job \in [Conns -> Kinds] /\ left \in [Threads -> Nat]
    /\ req \in [Threads -> [kind : Kinds, host : Hosts, conn : Conns \cup {Nobody}]]

Holds(t) == {c \in Conns : lock[c] = t} # {} \/ gdk = t

(* A worker has died with a lock in its hand.                              *)
Broken == \E c \in Conns : At(c, "dead") /\ Holds(c)

(* No wakeup is lost: while there is something in a queue, its event is    *)
(* set, or about to be by the thread that pushed, although the event is    *)
(* set and cleared under different rules (webthread.py:23, 31).            *)
NoLostWakeup ==
    \A c \in Conns : queue[c] # << >> =>
        event[c] \/ \E t \in Threads : At(t, "set") /\ req[t].conn = c

(* Locks are taken in one order: who has a queue's lock needs no other to  *)
(* go on, and who has GDK's needs at most a queue's; so that no circle of  *)
(* threads can wait for each other, callbacks that push from inside a      *)
(* worker included (webthread.py:28-35, wmclient:388, 606).                *)
LockOrder ==
    /\ \A c \in Conns : lock[c] # Nobody =>
          \/ At(lock[c], "append") /\ req[lock[c]].conn = c
          \/ lock[c] = c /\ pc[c] \in {"pop", "dead"}
    /\ gdk # Nobody =>
          pc[gdk] \in (IF gdk = Gtk THEN {"get", "create", "push", "append", "set"}
                       ELSE {"leave", "dead"})

(* What is pushed is taken at last, unless its worker died, or another     *)
(* worker died with a lock.                                                *)
Served ==
    \A c \in Conns :
        queue[c] # << >> ~> \/ queue[c] = << >> \/ At(c, "dead") \/ Broken

(* GDK's lock always comes back, from every click and every callback, so   *)
(* that the user interface goes on, unless a worker died with a lock.      *)
GdkComesBack == \A t \in Threads : gdk = t ~> gdk # t \/ Broken
=============================================================================

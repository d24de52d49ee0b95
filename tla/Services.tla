------------------------------ MODULE Services ------------------------------
(***************************************************************************)
(* The services of the kernel that share no state with each other: lists,  *)
(* memory, tasks, event chains, pointing devices and the overlay.  Each    *)
(* behaviour is one of them; the others stay as they start.                *)
(***************************************************************************)
EXTENDS ListUse, PhysMem, Sched, Chains, Pointing, Overlay

CONSTANT PointDevices   \* "synaptics", "stubborn" (stays in relative mode) or "mouse"

VARIABLE part

vars == <<part, listVars, memVars, schedVars, chainVars, pointVars, overlayVars>>

Parts == {"list", "memory", "tasks", "chains", "pointer", "overlay"}

\* All of S in the part itself, one of it in the others.
Given(p, S) == IF part = p THEN S ELSE {CHOOSE x \in S : TRUE}

Init ==
  /\ part \in Parts
  /\ ListInit
  /\ MemInit(Given("memory", Maps))
  /\ SchedInit
  /\ ChainInit(Given("chains", Built))
  /\ PointInit(Given("pointer", PointDevices))
  /\ OverlayInit(Given("overlay", Titles))

Next ==
  \/ part = "list" /\ ListNext
     /\ UNCHANGED <<part, memVars, schedVars, chainVars, pointVars, overlayVars>>
  \/ part = "memory" /\ MemNext
     /\ UNCHANGED <<part, listVars, schedVars, chainVars, pointVars, overlayVars>>
  \/ part = "tasks" /\ SchedNext
     /\ UNCHANGED <<part, listVars, memVars, chainVars, pointVars, overlayVars>>
  \/ part = "chains" /\ ChainNext
     /\ UNCHANGED <<part, listVars, memVars, schedVars, pointVars, overlayVars>>
  \/ part = "pointer" /\ PointNext
     /\ UNCHANGED <<part, listVars, memVars, schedVars, chainVars, overlayVars>>
  \/ part = "overlay" /\ OverlayNext
     /\ UNCHANGED <<part, listVars, memVars, schedVars, chainVars, pointVars>>

Spec == Init /\ [][Next]_vars

\* A list is what was put in it, and each allocator of mm/ hands out a thing once:
\* a page is free and listed once, or held by one caller, double frees included
\* (pmm.rs), and the blocks of the heap are in it and apart (heap.rs).  A page and a
\* block may be the same memory: pmm_init lists the heap's pages too (pmm.rs:207-214).
HandedOutOnce == ListExact /\ PagesExact /\ HeapExact
=============================================================================

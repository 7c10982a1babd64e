----------------------------- MODULE TrackManager -----------------------------
(* base/TrackManager.cuh: the slots of one particle type as a ring of the  *)
(* buffer, whose used part grows from fStart, with the active slots of     *)
(* this iteration and the next ones.  Operators on the manager's record.   *)
(* The host's copy of the statistics is written where it is used, after    *)
(* refresh_stats, and is the device's.                                     *)
EXTENDS Integers, Sequences

CONSTANTS
  fCapacity,          (* slots of a manager                                *)
  CompactTenths       (* compactThreshold (0.9) in tenths                  *)

ASSUME TrackManagerAssumption == fCapacity \in Nat \ {0}

Vacant == 0           (* what a slot holds before its first track          *)
Slots == 0 .. fCapacity - 1

NewManager ==
  [fStart |-> 0, fNextStart |-> 0, fInFlight |-> 0, fNextFree |-> 0,
   fActiveTracks |-> <<>>, fNextTracks |-> <<>>, fBuffer |-> [slot \in Slots |-> Vacant]]

(* The code leaves the tracks in the buffer, where no slot leads to them.   *)
clear(m) == NewManager

(* -1 when the ring is full.                                               *)
NextSlot(m) == IF m.fNextFree - m.fStart >= fCapacity THEN -1 ELSE m.fNextFree % fCapacity

NextTrack(m, track) ==
  [m EXCEPT !.fNextFree = @ + 1, !.fNextTracks = Append(@, NextSlot(m)),
            !.fBuffer[NextSlot(m)] = track]

refresh_stats(m) ==
  IF m.fNextTracks = <<>> THEN clear(m)
  ELSE [m EXCEPT !.fNextStart = m.fNextFree, !.fInFlight = Len(m.fNextTracks),
                 !.fActiveTracks = <<>>]

swap(m) == [m EXCEPT !.fActiveTracks = m.fNextTracks, !.fNextTracks = m.fActiveTracks]

(* The slot that takes the i-th track when they move to where.             *)
Target(where, i) == (where + i - 1) % fCapacity

CopyTrack(buffer, from, to) == [buffer EXCEPT ![to] = buffer[from]]

(* The copies are made in any order, here from the last to the first: they *)
(* commute, as the room they fill does not overlap the tracks              *)
(* (TrackManagerProofs).                                                   *)
Copied(m, where) ==
  LET last == Len(m.fNextTracks)
      copied[n \in 0 .. last] ==
        IF n = 0 THEN m.fBuffer
        ELSE CopyTrack(copied[n - 1], m.fNextTracks[last - n + 1], Target(where, last - n + 1))
  IN copied[last]

defragment_buffer(m, where) ==
  [m EXCEPT !.fBuffer = Copied(m, where),
            !.fActiveTracks = @ \o [i \in DOMAIN m.fNextTracks |-> Target(where, i)]]

adjust_indices(m, start_new, next_free) ==
  [m EXCEPT !.fStart = start_new, !.fNextFree = next_free, !.fNextTracks = <<>>]

GetNused(m) == m.fNextStart - m.fStart

SwapAndCompactMutant(m) ==
  LET fStart == m.fNextStart % fCapacity
  IN IF 10 * (GetNused(m) + 2 * m.fInFlight) < CompactTenths * fCapacity THEN swap(m)
     ELSE adjust_indices(defragment_buffer(m, fStart), fStart, fStart + m.fInFlight)

can_compress(m) == GetNused(m) + m.fInFlight < fCapacity

SwapAndCompact(m) ==
  LET needed == GetNused(m) + 2 * m.fInFlight
      fStart == m.fNextStart % fCapacity
  IN IF 10 * needed < CompactTenths * fCapacity \/ ~can_compress(m) THEN swap(m)
     ELSE adjust_indices(defragment_buffer(m, fStart), fStart, fStart + m.fInFlight)
=============================================================================

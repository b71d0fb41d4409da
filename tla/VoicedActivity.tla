--------------------------- MODULE VoicedActivity ---------------------------
(***************************************************************************)
(* How much of a recording is speech (voicedActivity.ts), and whether the   *)
(* recording is worth a request (recordingValidator.ts).  A recording is a  *)
(* sequence of frames of 20 ms, each with the energy and the peak of its    *)
(* samples in units of 1/10000 of full scale; a frame is louder than the    *)
(* noise or it is not, a run of loud frames starts a segment, and a run of  *)
(* quiet ones ends it.                                                      *)
(***************************************************************************)
EXTENDS Naturals, FiniteSets, Sequences, TLC, FiniteSetsExt, SequencesExt

CONSTANT
  Recordings   \* recordings the user may make

FrameMs == 20
VoicedFloor == 40     \* absVoicedFloor
NoiseClamp == 5       \* absNoiseFloorClamp
OnsetFrames == 3
HangoverFrames == 4
MinRecordingMs == 300
SilencePeak == 30
MinVoicedMs == 250

(* sorted[floor((n - 1) * 0.15)], counted from 1.                           *)
Percentile(sorted) == sorted[1 + ((Len(sorted) - 1) * 15) \div 100]

NoiseFloor(frames) ==
  LET energies == [i \in DOMAIN frames |-> frames[i].rms]
  IN Max({NoiseClamp, Percentile(SortSeq(energies, <))})

(* Louder than 2.5 times the noise, and than the absolute floor.            *)
LouderThanNoise(frames) ==
  LET floor == NoiseFloor(frames)
  IN [i \in DOMAIN frames |-> 2 * frames[i].rms > 5 * floor /\ frames[i].rms > VoicedFloor]

(* voicedLikeByAbsoluteEnergy: loud in itself, with the crest of a voice.   *)
LoudWithCrest(frames) ==
  [i \in DOMAIN frames |->
     frames[i].rms > VoicedFloor /\ 10 * frames[i].peak >= 12 * frames[i].rms]

-----------------------------------------------------------------------------
(* voicedFlagsFor: one pass over the frames.                                *)
Outside == [voiced |-> {}, inside |-> FALSE, start |-> 0, run |-> 0, quiet |-> 0, last |-> 0]

HearLoud(s, i) ==
  LET start == IF s.run = 0 THEN i ELSE s.start
      begun == s.run + 1 >= OnsetFrames
  IN IF s.inside THEN [s EXCEPT !.voiced = @ \cup {i}, !.quiet = 0, !.last = i]
     ELSE [s EXCEPT !.start = start, !.run = @ + 1, !.inside = begun,
                    !.voiced = IF begun THEN @ \cup start..i ELSE @,
                    !.last = IF begun THEN i ELSE @]

HearQuiet(s, i) ==
  LET broken == [s EXCEPT !.run = 0, !.start = 0]
  IN IF ~s.inside THEN broken
     ELSE IF s.quiet + 1 > HangoverFrames
     THEN [broken EXCEPT !.voiced = @ \ (s.last + 1)..i, !.inside = FALSE, !.quiet = 0, !.last = 0]
     ELSE [broken EXCEPT !.voiced = @ \cup {i}, !.quiet = @ + 1]

VoicedFrames(loud) ==
  LET Step(s, i) == IF loud[i] THEN HearLoud(s, i) ELSE HearQuiet(s, i)
      end == FoldLeft(Step, Outside, [i \in DOMAIN loud |-> i])
  IN IF end.inside THEN end.voiced \ (end.last + 1)..Len(loud) ELSE end.voiced

(* analyzeVoicedActivity, as far as a decision hangs on it.                 *)
VoicedMs(frames) ==
  LET voiced == VoicedFrames(LouderThanNoise(frames))
  IN FrameMs * Cardinality(IF voiced # {} THEN voiced ELSE VoicedFrames(LoudWithCrest(frames)))

(* validateRecording, of a recording that is no command.                    *)
Refused(frames) ==
  \/ FrameMs * Len(frames) < MinRecordingMs
  \/ \A i \in DOMAIN frames : frames[i].peak < SilencePeak
  \/ VoicedMs(frames) < MinVoicedMs

RefusedRecordings == {frames \in Recordings : Refused(frames)}

-----------------------------------------------------------------------------
(* Bounds of the two checks that follow.                                    *)
Flags == UNION {[1..n -> BOOLEAN] : n \in 0..10}
Silent == [rms |-> 2, peak |-> 3]
Voice == [rms |-> 100, peak |-> 300]
Hum == [rms |-> 90, peak |-> 100]
Mixtures == UNION {[1..n -> {Silent, Voice, Hum}] : n \in 1..8}

(* The pass finds exactly the frames of the segments: a segment starts with *)
(* a full run of loud frames, ends with a loud frame, and is nowhere quiet  *)
(* for longer than the hangover.                                            *)
SegmentsAreFound ==
  \A loud \in Flags :
    VoicedFrames(loud) =
      {k \in DOMAIN loud : \E a, b \in DOMAIN loud :
         /\ a <= k /\ k <= b
         /\ a + OnsetFrames - 1 <= b /\ loud[b]
         /\ \A i \in a..(a + OnsetFrames - 1) : loud[i]
         /\ \A i \in a..(b - HangoverFrames) : \E j \in i..(i + HangoverFrames) : loud[j]}

(* A pause lets the speech be heard: once a sixth of the frames are silent, *)
(* the noise floor is theirs, and no frame of a full run of voice is lost,  *)
(* however loud the rest; and a steady hum alone is never speech.           *)
SpeechIsHeard ==
  \A frames \in Mixtures :
    LET silent == {i \in DOMAIN frames : frames[i] = Silent}
        heard == VoicedFrames(LouderThanNoise(frames))
    IN /\ 6 * Cardinality(silent) >= Len(frames) =>
            \A a \in 1..(Len(frames) - OnsetFrames + 1) :
              LET full == a..(a + OnsetFrames - 1)
              IN (\A i \in full : frames[i] # Silent) => full \subseteq heard
       /\ (\A i \in DOMAIN frames : frames[i] = Hum) => VoicedMs(frames) = 0
=============================================================================

----------------------------- MODULE MCServices -----------------------------
(* Seven parts of the program that share nothing: a behaviour moves one of  *)
(* them, and finds the others as they were to begin with.                   *)
EXTENDS Settings, SystemPoll, Presets, Outputs, CaptionEditor, UploadPage, DatasetPage

CONSTANTS u1, u2, u3, h1, paths, training

VARIABLE part       \* the part that moves

MCHintOf == [u \in Update |-> IF u = u3 THEN u3 ELSE h1]

MCSchedule == <<<<"step", 1>>, <<"epoch", 1>>>>

ServicesInit ==
    /\ part \in {"config", "poll", "preset", "output", "edit", "upload", "card"}
    /\ ConfigInit
    /\ part = "config" \/ (token = None /\ kind = [u \in Update |-> "settings"])
    /\ PollInit
    /\ PresetInit
    /\ part = "preset" \/ preset = Absent
    /\ OutputInit
    /\ part = "output" \/ style = [e |-> TRUE, time |-> TRUE, seeded |-> {}]
    /\ EditInit
    /\ part = "edit" \/ \A f \in Image : captions[f] = Nothing
    /\ UploadInit
    /\ part = "upload" \/ place = "page"
    /\ CardInit

\* A request for outputs is followed to its answer, not beyond.
ServicesNext ==
    /\ part' = part
    /\ \/ part = "config" /\ ConfigNext
          /\ UNCHANGED <<pollVars, presetVars, outputVars, editVars, uploadVars, cardVars>>
       \/ part = "poll" /\ PollNext
          /\ UNCHANGED <<configVars, presetVars, outputVars, editVars, uploadVars, cardVars>>
       \/ part = "preset" /\ PresetNext
          /\ UNCHANGED <<configVars, pollVars, outputVars, editVars, uploadVars, cardVars>>
       \/ part = "output" /\ asked # "answered" /\ OutputNext
          /\ UNCHANGED <<configVars, pollVars, presetVars, editVars, uploadVars, cardVars>>
       \/ part = "edit" /\ EditNext
          /\ UNCHANGED <<configVars, pollVars, presetVars, outputVars, uploadVars, cardVars>>
       \/ part = "upload" /\ UploadNext
          /\ UNCHANGED <<configVars, pollVars, presetVars, outputVars, editVars, cardVars>>
       \/ part = "card" /\ CardNext
          /\ UNCHANGED <<configVars, pollVars, presetVars, outputVars, editVars, uploadVars>>

servicesVars ==
    <<part, configVars, pollVars, presetVars, outputVars, editVars, uploadVars, cardVars>>

ServicesSpec == ServicesInit /\ [][ServicesNext]_servicesVars
=============================================================================

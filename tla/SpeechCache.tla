------------------------------ MODULE SpeechCache -------------------------------
(* Speech synthesized by AivisSpeech (adapters/aivis_speech.py) and kept in a   *)
(* directory that outlives the program: the next run, with another engine or    *)
(* another configuration, plays what the last one stored.  A program may be     *)
(* killed at any step.  Where the synthesis or the output fails, the fallback   *)
(* of adapters/speech.py says the words, if there is one.                       *)
EXTENDS Naturals, Sequences

CONSTANTS Programs,  \* processes that share the cache directory
          Engines,   \* the answers to /speakers: sequences of [name, styles]
          Configs,   \* speech configurations a run may have
          Texts,     \* the reactions' words
          MaxTalks,  \* bound: words asked for
          NoSound    \* None: no file, no voice, no name configured

ASSUME SpeechAssumption ==
    /\ MaxTalks \in Nat
    /\ \A c \in Configs : "neutral" \in DOMAIN c.profiles

VARIABLES talker,    \* per process: "off", "idle", "looks", "misses", "writes", "replaces",
                     \* "found" or "fails"
          setup,     \* its configuration
          voice,     \* default_speaker and default_style, or NoSound: the fallback is the backend
          wish,      \* the words it is asked for, and whether to play them
          wavs,      \* the cache: the synthesis each file holds
          temps,     \* its .wav.tmp files
          uttered,   \* history: what came out of the last request
          talks

speechVars == <<talker, setup, voice, wish, wavs, temps, uttered, talks>>

-----------------------------------------------------------------------------------
(* Which voice speaks. *)

Named(things, name) == SelectSeq(things, LAMBDA thing : thing.name = name)

\* resolve_default_style without an ID: the preferred names in order, else the speaker's
\* first style if any other was acceptable; or its normal one when no name is preferred.
StyleOf(speaker, c) ==
    LET found == SelectSeq(c.styleNames, LAMBDA n : Named(speaker.styles, n) # <<>>)
        normal == Named(speaker.styles, "normal") \o speaker.styles
    IN CASE c.styleNames = <<>> -> Head(normal)
         [] found # <<>>        -> Head(Named(speaker.styles, Head(found)))
         [] OTHER -> IF Len(c.styleNames) > 1 THEN Head(speaker.styles) ELSE NoSound

VoiceOf(speaker, style) ==
    IF style = NoSound THEN NoSound ELSE [speaker |-> speaker, style |-> style]

WithStyle(engine, id) ==
    SelectSeq(engine, LAMBDA s : \E i \in DOMAIN s.styles : s.styles[i].id = id)

DefaultVoice(engine, c) ==
    LET named == IF c.speaker = NoSound THEN engine ELSE Named(engine, c.speaker)
        owners == WithStyle(engine, c.styleId)
        HasId(style) == style.id = c.styleId
    IN IF c.styleId # NoSound
       THEN IF owners = <<>> THEN NoSound
            ELSE VoiceOf(Head(owners), Head(SelectSeq(Head(owners).styles, HasId)))
       ELSE IF named = <<>> \/ Head(named).styles = <<>> THEN NoSound
            ELSE VoiceOf(Head(named), StyleOf(Head(named), c))

\* resolve_profile: what is not configured is said neutrally.
Profile(c, name) == c.profiles[IF name \in DOMAIN c.profiles THEN name ELSE "neutral"]

\* resolve_profile_style: a style the speaker does not have is replaced by the default.
ProfileStyle(v, profile) ==
    LET known == Named(v.speaker.styles, profile.style) IN
    IF profile.style = NoSound \/ known = <<>> THEN v.style ELSE Head(known)

\* What the engine is asked to synthesize, with apply_voice_profile.
Synthesis(p) ==
    LET profile == Profile(setup[p], wish[p].profile) IN
    [text |-> wish[p].text, style |-> ProfileStyle(voice[p], profile).id, scale |-> profile.scale]

\* Mutant: the style and the profile's name are the key, not its settings.
PathByName(p) ==
    [text |-> wish[p].text, speaker |-> voice[p].speaker.name,
     style |-> ProfileStyle(voice[p], Profile(setup[p], wish[p].profile)).id,
     profile |-> wish[p].profile]

\* path_for: a digest of the words, the speaker, the style and the whole profile.
PathFor(p) ==
    LET profile == Profile(setup[p], wish[p].profile) IN
    [text |-> wish[p].text, speaker |-> voice[p].speaker.name,
     style |-> ProfileStyle(voice[p], profile).id, profile |-> profile]

File(files, path) == IF path \in DOMAIN files THEN files[path] ELSE NoSound
Put(files, path, wav) ==
    [q \in DOMAIN files \cup {path} |-> IF q = path THEN wav ELSE files[q]]
Gone(files, path) == [q \in DOMAIN files \ {path} |-> files[q]]

Wav(what, whole) == [what |-> what, whole |-> whole]
Nothing == [by |-> "nobody", wav |-> NoSound]

-----------------------------------------------------------------------------------
SpeechInit ==
    /\ talker = [p \in Programs |-> "off"] /\ setup = [p \in Programs |-> NoSound]
    /\ voice = [p \in Programs |-> NoSound] /\ wish = [p \in Programs |-> NoSound]
    /\ wavs = <<>> /\ temps = <<>>
    /\ uttered = [p \in Programs |-> Nothing] /\ talks = 0

Becomes(p, label) == talker' = [talker EXCEPT ![p] = label]

\* create_speech_backend: an engine that does not answer, or has not the configured voice,
\* ends a program that asks for Aivis; "auto" then speaks by its fallback alone.
StartTalker(p, c, engine) ==
    /\ talker[p] = "off"
    /\ DefaultVoice(engine, c) = NoSound => c.fallback # "none"
    /\ Becomes(p, "idle")
    /\ setup' = [setup EXCEPT ![p] = c]
    /\ voice' = [voice EXCEPT ![p] = DefaultVoice(engine, c)]
    /\ wish' = [wish EXCEPT ![p] = NoSound] /\ uttered' = [uttered EXCEPT ![p] = Nothing]
    /\ UNCHANGED <<wavs, temps, talks>>

\* speak_timed, and precache (without a fallback, and without playing): _prepare looks
\* whether the file is there.
Wanted(p, text, profile, plays) ==
    /\ talker[p] = "idle" /\ talks < MaxTalks /\ talks' = talks + 1
    /\ ~plays => setup[p].fallback = "none"
    /\ wish' = [wish EXCEPT ![p] = [text |-> text, profile |-> profile, plays |-> plays]]
    /\ uttered' = [uttered EXCEPT ![p] = Nothing]
    /\ Becomes(p, IF voice[p] = NoSound THEN "fails" ELSE "looks")
    /\ UNCHANGED <<setup, voice, wavs, temps>>

Finds(p) == Becomes(p, IF wish[p].plays THEN "found" ELSE "idle")

Looks(p) ==
    /\ talker[p] = "looks"
    /\ IF File(wavs, PathFor(p)) # NoSound THEN Finds(p) ELSE Becomes(p, "misses")
    /\ UNCHANGED <<setup, voice, wish, wavs, temps, uttered, talks>>

Says(p, by, wav) == uttered' = [uttered EXCEPT ![p] = [by |-> by, wav |-> wav]]

\* audio_query, apply_voice_profile and synthesis; the request fails or is not answered with
\* a WAV, or store opens the temporary file.  An answer that breaks off while it is read is
\* none of the errors that the transport translates: it is the caller's, past the fallback.
Synthesizes(p) ==
    /\ talker[p] = "misses"
    /\ \/ Becomes(p, "fails") /\ UNCHANGED <<temps, uttered>>
       \/ Becomes(p, "idle") /\ Says(p, "raised", NoSound) /\ UNCHANGED temps
       \/ /\ Becomes(p, "writes") /\ UNCHANGED uttered
          /\ temps' = Put(temps, PathFor(p), Wav(Synthesis(p), FALSE))
    /\ UNCHANGED <<setup, voice, wish, wavs, talks>>

\* The write, which may fail half-way.  Where another process has renamed the file since,
\* it is the cached one that is written.
WritesAll(p) ==
    /\ talker[p] = "writes"
    /\ \/ Becomes(p, "fails") /\ UNCHANGED <<wavs, temps>>
       \/ /\ Becomes(p, "replaces")
          /\ IF File(temps, PathFor(p)) # NoSound
             THEN temps' = Put(temps, PathFor(p), Wav(Synthesis(p), TRUE)) /\ wavs' = wavs
             ELSE wavs' = Put(wavs, PathFor(p), Wav(Synthesis(p), TRUE)) /\ temps' = temps
    /\ UNCHANGED <<setup, voice, wish, uttered, talks>>

\* temporary.replace(path), which raises where another process was quicker.
Replaces(p) ==
    /\ talker[p] = "replaces"
    /\ LET wav == File(temps, PathFor(p)) IN
       IF wav = NoSound THEN Becomes(p, "fails") /\ UNCHANGED <<wavs, temps>>
       ELSE /\ wavs' = Put(wavs, PathFor(p), wav) /\ temps' = Gone(temps, PathFor(p))
            /\ Finds(p)
    /\ UNCHANGED <<setup, voice, wish, uttered, talks>>

\* play_wav; an output that fails may have been heard or not.
PlaysFile(p) ==
    /\ talker[p] = "found"
    /\ Says(p, "engine", File(wavs, PathFor(p)))
    /\ Becomes(p, "idle") \/ Becomes(p, "fails")
    /\ UNCHANGED <<setup, voice, wish, wavs, temps, talks>>

\* The handler of speak_timed: the fallback says the words, the console where Windows'
\* voice fails; without a fallback the error is the caller's.
FallsBack(p) ==
    /\ talker[p] = "fails" /\ Becomes(p, "idle")
    /\ \/ setup[p].fallback = "none" /\ Says(p, "raised", NoSound)
       \/ setup[p].fallback = "windows" /\ Says(p, "windows", Wav(wish[p], TRUE))
       \/ setup[p].fallback # "none" /\ Says(p, "console", Wav(wish[p], TRUE))
    /\ UNCHANGED <<setup, voice, wish, wavs, temps, talks>>

TalkerDies(p) ==
    /\ talker[p] # "off" /\ Becomes(p, "off")
    /\ setup' = [setup EXCEPT ![p] = NoSound] /\ voice' = [voice EXCEPT ![p] = NoSound]
    /\ wish' = [wish EXCEPT ![p] = NoSound] /\ uttered' = [uttered EXCEPT ![p] = Nothing]
    /\ UNCHANGED <<wavs, temps, talks>>

SpeechNext ==
    \E p \in Programs :
        \/ \E c \in Configs, engine \in Engines : StartTalker(p, c, engine)
        \/ \E text \in Texts, profile \in {"neutral", "happy"}, plays \in BOOLEAN :
               Wanted(p, text, profile, plays)
        \/ Looks(p) \/ Synthesizes(p) \/ WritesAll(p) \/ Replaces(p) \/ PlaysFile(p)
        \/ FallsBack(p) \/ TalkerDies(p)

SpeechSpec == SpeechInit /\ [][SpeechNext]_speechVars

-----------------------------------------------------------------------------------
\* What is played is a whole recording of the words asked for, in the voice and with the
\* settings this run's configuration gives them, whatever earlier runs left in the cache and
\* wherever they were killed; and a request that returns has been said by somebody.
WordsAreAsAsked ==
    \A p \in Programs :
        /\ uttered[p].by = "engine" => uttered[p].wav = Wav(Synthesis(p), TRUE)
        /\ talker[p] = "idle" /\ wish[p] # NoSound /\ wish[p].plays => uttered[p].by # "nobody"
=================================================================================

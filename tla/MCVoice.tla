------------------------------- MODULE MCVoice -------------------------------
(***************************************************************************)
(* Instances of VoiceSession for TLC: two utterances, and one kind of      *)
(* trouble, or two that meet, at a time.                                   *)
(***************************************************************************)
EXTENDS VoiceSession

Calm ==
  [say |-> <<"TAIL", "MODEL">>, late |-> FALSE, dup |-> 0, http |-> 0, balk |-> 0,
   cut |-> 0, freeze |-> 0, tail |-> 0, talk |-> 0, mute |-> 0, word |-> 0,
   finish |-> 0, stop |-> 0, reload |-> 0, drop |-> 0, error |-> 0, goAway |-> 0]

Model == [Calm EXCEPT !.say = <<"MODEL", "MODEL">>]

One == [Calm EXCEPT !.say = <<"MODEL">>]

Troubles ==
  {[Calm EXCEPT !.dup = 1, !.tail = 1],
   [Model EXCEPT !.say = <<"BAD", "HEAD">>, !.freeze = 1, !.balk = 1],
   [One EXCEPT !.talk = 2, !.cut = 1, !.mute = 2],
   [One EXCEPT !.say = <<"HEAD">>, !.talk = 1, !.word = 2, !.finish = 1, !.drop = 1],
   [Calm EXCEPT !.say = <<"TAIL", "HEAD">>, !.reload = 1],
   [Calm EXCEPT !.stop = 1, !.http = 1],
   [One EXCEPT !.http = 3, !.balk = 1],
   [One EXCEPT !.say = <<"HEAD">>, !.reload = 1, !.http = 4],
   [One EXCEPT !.say = <<"HEAD">>, !.talk = 1, !.word = 1, !.goAway = 1],
   [Model EXCEPT !.late = TRUE, !.talk = 1],
   [One EXCEPT !.error = 1, !.talk = 1]}

=============================================================================

-------------------------- MODULE MCProductFacets ---------------------------
(* Small instances of ProductFacets: titles of the tests and questions.    *)
EXTENDS ProductFacets

File(words) == [words |-> words, spaced |-> FALSE]
Said(words) == [words |-> words, spaced |-> TRUE]

PadGuide ==
    File(<<"sram", "avid", "disc", "brake", "pad", "identification", "guide">>)

TheGuide == {PadGuide}

SomePdfTitles ==
    {PadGuide,
     File(<<"2010", "sram", "technical", "manual">>),
     File(<<"2014", "2017", "pike", "service", "manual">>),
     File(<<"suspension", "theory", "guide">>)}

SomeHtmlTitles ==
    {Said(<<"avid", "code", "r">>),
     Said(<<"sram", "guide", "rsc">>),
     Said(<<"frame", "fit", "specifications">>)}


SomeQuestions ==
    {Said(<<"torque", "for", "the", "sram", "code", "caliper", "bolt">>),
     Said(<<"pike", "lower", "leg", "bolts">>),
     Said(<<"box", "three", "rear", "derailleur", "bolt">>),
     Said(<<"race", "face", "crank", "bolt">>),
     Said(<<"guide", "brake", "equalizer", "screw">>),
     Said(<<"tool", "for", "the", "top", "cap">>)}
=============================================================================

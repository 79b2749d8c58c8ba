------------------------------ MODULE MCDrops ------------------------------
\* Two characters on two maps of one drop number each; herbs stack, swords do not.
EXTENDS Drops

CONSTANTS ann, bob, field, cave, herb, sword

MCChars == {ann, bob}
MCMaps == {field, cave}
MCItems == {herb, sword}
MCStackable == {herb}
============================================================================

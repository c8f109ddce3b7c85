\* Recordings of up to three lines under both configurations and every order of the stages;
\* transcripts of up to four words with numbers of two digits.
SPECIFICATION UnderstandingSpec
CONSTANTS
  Taxonomy <- SleepTaxonomy
  Product <- SleepProducts
  Job <- SleepJobs
  Answer <- SleepAnswers
  NoAnswer = NoAnswer
  Capital = {"Rahul", "Kartik"}
  Lower = {"raj"}
  Digit = {"9", "1"}
  MobileStart = {"9"}
  PhoneLength = 2
  MaxWords = 4
INVARIANTS
  AnalysisIsPrivate CustomerIsHeard NotesAreGrounded CoachingNeverBlank MentionsAttributed
  AdviceIsGrounded ScoresAgree LastWordWins
CHECK_DEADLOCK FALSE

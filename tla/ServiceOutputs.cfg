SPECIFICATION Spec
CONSTANTS
  w1 = w1  w2 = w2  scraper = scraper  temp = temp  pres = pres  NoKey = NoKey
  Workers = {w1, w2}
  Scrapers = {scraper}
  Threads = {w1, w2, scraper}
  Sensors = {temp, pres}
  Histograms = {temp, pres}
  Counters <- MCCounters
  NumNotifiers = 2
  MaxReadings = 3
SYMMETRY Interchangeable
INVARIANTS TypeOK ReportsAreHonest CountersExact HistogramsExact FailuresAreBirths
  StoredIsCounted CountedReachedEveryNotifier DumpsAgree
